---- MODULE Spec2Model ----
(***************************************************************************)
(* A model of the ordinary-assembly statement processor of the HLASM       *)
(* analyzer (parser_library/src/processing/instruction_sets/               *)
(* asm_processor.cpp).                                                     *)
(*                                                                         *)
(* One step of the state machine is the processing of one statement by its *)
(* directive handler, or the completion of a request for a copy member, or *)
(* the end of a copy member.  A handler is an operator from the context     *)
(* before the statement and the statement to the context after it; the     *)
(* action of the handler commits that context.  The context holds, besides *)
(* the analyzer's own state, what the statement handed to its              *)
(* collaborators: the diagnostics it added, the postponed statements it     *)
(* appended, the calls it made on the location counter.                    *)
(*                                                                         *)
(* The symbol table, the section table and the copy stack live in classes  *)
(* whose methods are called, not defined, by the modelled sources; their    *)
(* operators say so.  The resolution of posted dependencies is none of the *)
(* modelled handlers' work: a dependency that a handler posts stays posted. *)
(* The location counter and its addresses are not modelled: align and      *)
(* reserve_storage_area are recorded as calls, a relocatable value is a    *)
(* value of kind RELOC.                                                    *)
(*                                                                         *)
(* The preprocessor chain of analyzer.cpp is a second machine beside the   *)
(* statement processor: its steps are the creation of the chain and the    *)
(* starts, suspensions and completions of the tasks that run it.  The      *)
(* statement cache of members_statement_provider.cpp is a third: its steps *)
(* are the calls of get_next for the statements of one member.             *)
(*                                                                         *)
(* The specifications share the state; each takes the steps of one group   *)
(* of statements: Spec (sections and START), SpecSym (the statements that  *)
(* define their label), SpecCopy (COPY), SpecMnote (MNOTE), SpecEqu (the   *)
(* attribute operands of EQU), SpecLoctr, SpecEnd, SpecOpsyn, SpecUsing    *)
(* (USING, DROP, PUSH, POP), SpecExtern (EXTRN, WXTRN), SpecAinsert,       *)
(* SpecTitle, SpecPreproc (the preprocessor chain), SpecProcess (the       *)
(* dispatch of asm_processor::process), SpecData (the chunks of DC and     *)
(* DS), SpecDataLabel (the label of DC and DS), SpecProvider (the          *)
(* statement cache), SpecOrg (ORG), SpecUsingLabel (the operands and       *)
(* labels of USING and DROP) and SpecStart (the offset of START).          *)
(***************************************************************************)
EXTENDS Integers, Sequences, FiniteSets, TLC

\* ------------------------------------------------------------------ bounds

\* Ordinary symbol names are the identifiers 1..NumIds.
NumIds == 2

\* How many calls of get_next a run of the statement provider holds.
MaxRetrievals == 3

\* The empty identifier, context::id_index().
EmptyId == 0

Ids == 1..NumIds

\* ------------------------------------------------------------------- state

VARIABLES
    symbols,        \* ord_ctx symbol table: Ids -> symbol record or NoSymbol
    sections,       \* ord_ctx.sections(): the sections, [name, kind]
    curr_section,   \* the current section or NoSection
    loctrs,         \* the location counters of the sections, [sect, name]
    curr_loctrs,    \* of every section its current location counter
    sym_deps,       \* posted symbol dependencies, [target, on]
    stmt,           \* the statement processed last
    diags,          \* the diagnostics the last statement added, in order
    postponed,      \* how many postponed statements the last statement appended
    effects,        \* the calls the last statement made on the location counter, the
                    \* USING map and the dependency tables, in order: [fn, arg]
    mnote_max,      \* hlasm_ctx: the highest MNOTE level recorded
    end_reached,    \* hlasm_ctx: the END statement has been reached
    opcodes,        \* hlasm_ctx: of every name the operation code it stands for
    active_usings,  \* hlasm_ctx: the USING state, the registers that are bases
    using_stack,    \* hlasm_ctx: the USING states saved by PUSH USING
    using_labels,   \* ord_ctx: the names registered as labels of USING
    title_name,     \* hlasm_ctx: the title name, or the empty name
    ainsert_front,  \* open-code provider: the records AINSERT put in front
    ainsert_back,   \* open-code provider: the records AINSERT put at the back
    copy_members,   \* hlasm_ctx.copy_members(): the names of the cached copy members
    copy_stack,     \* hlasm_ctx.whole_copy_stack(): the names of the entered members
    pending,        \* the external processing request in flight, or NoRequest
    fetch_result,   \* what the completion callback of this step was called with
    start_seen,     \* history: a START statement has been processed
    starts_accepted, \* history: how many START statements entered their section
    preprocessor_args, \* analyzer_options: the configured preprocessor options
    preprocessor,   \* what get_preprocessor returned, or NotCreated
    pp_task,        \* combined_preprocessor::generate_replacement: its coroutine frame
    pp_inner,       \* the generate_replacement task of the preprocessor that runs
    pp_input,       \* the document generate_replacement was called with
    replacement,    \* the document the finished task returned: none or one
    pp_log,         \* history: the starts and completions of the preprocessors
    stmt_count,     \* history: how many statements asm_processor::process was given
    stmt_cache,     \* members_statement_provider: the statement caches of the statements
                    \* of the member, the entries [base, key, item] inserted so far
    parse_log,      \* history: the calls of parse_operand_field, [base, status, kind]
    retrieval,      \* the last call of get_next: its processor and statement, the status
                    \* the processor gave, and what it reported and returned
    retrievals      \* history: how many calls of get_next there were

\* The state of the statement processor.
asm_vars == <<symbols, sections, curr_section, loctrs, curr_loctrs, sym_deps, stmt, diags, postponed,
          effects, mnote_max, end_reached, opcodes, active_usings, using_stack, using_labels,
          title_name, ainsert_front, ainsert_back, copy_members, copy_stack, pending, fetch_result, start_seen,
          starts_accepted>>

\* The state of the preprocessor chain.
pp_vars == <<preprocessor_args, preprocessor, pp_task, pp_inner, pp_input, replacement, pp_log>>

\* The state of the members statement provider.
sp_vars == <<stmt_cache, parse_log, retrieval, retrievals>>

vars == <<asm_vars, pp_vars, stmt_count, sp_vars>>

\* symbol_attributes::undef_scale: the scale attribute is not defined.
undef_scale == 32767

\* context::symbol: the kind of its value (UNDEF, ABS, RELOC), the value of an
\* absolute one, and its attributes: origin, type, length, and the scale,
\* which only a data definition defines.
Symbol(kind, val, origin, type, length) ==
    [kind |-> kind, val |-> val, origin |-> origin, type |-> type, length |-> length,
     scale |-> undef_scale]

NoSymbol == Symbol("NONE", 0, "NONE", 0, 0)

NoSection == [name |-> EmptyId, kind |-> "NONE"]

\* A request for external processing: the member whose callback waits.
Request(name) == [has |-> TRUE, name |-> name]

NoRequest == [has |-> FALSE, name |-> EmptyId]

\* A statement: its operation code, its label field and its operand list.
Stmt(op, label, ops) == [op |-> op, label |-> label, ops |-> ops]

NoStmt == Stmt("NONE", [type |-> "EMPTY", name |-> EmptyId], <<>>)

\* symbol_attributes::undef_type, undef_length: the attribute is not defined.
undef_type == -1

undef_length == -1

\* symbol_attributes(origin, type, length), and the attributes of the
\* make_..._attrs factories, of which only the origin is known here.
Attrs(origin, type, length) ==
    [origin |-> origin, type |-> type, length |-> length, scale |-> undef_scale]

\* symbol_attributes(symbol_origin::DAT, type, len, scale, integer)
DataAttrs(type, length, scale) == [Attrs("DAT", type, length) EXCEPT !.scale = scale]

FactoryAttrs(origin) == Attrs(origin, undef_type, undef_length)

\* --------------------------------------------------------------- operands

\* A text is a sequence of runs [ch, n]: n times the character ch, n > 0.
Run(ch, n) == [ch |-> ch, n |-> n]

\* The text of a short string, character by character.
Chars(cs) == [i \in DOMAIN cs |-> Run(cs[i], 1)]

\* semantics::operand: its operand_type; for an assembler operand its
\* asm_kind and, of an expression, the single term and the text that
\* get_value() returns, of a string the characters between the apostrophes; for a data definition
\* operand the alignment boundary, the type attribute and the default length
\* of its type, its length modifier as a term (NONE: no modifier), and its
\* scale modifier, a term of its own.
Op(type, kind, term, v, name, bnd, tattr, deflen) ==
    [type |-> type, kind |-> kind, term |-> term, v |-> v, name |-> name,
     bnd |-> bnd, tattr |-> tattr, deflen |-> deflen, text |-> <<>>, values |-> <<>>,
     scale |-> [term |-> "NONE", v |-> 0, name |-> EmptyId]]

EmptyOp == Op("EMPTY", "NONE", "NONE", 0, EmptyId, 0, 0, 0)

NumOp(v) == Op("ASM", "EXPR", "NUM", v, EmptyId, 0, 0, 0)

SymOp(n) == Op("ASM", "EXPR", "SYM", 0, n, 0, 0, 0)

\* The location counter reference, *.
LoctrOp == [Op("ASM", "EXPR", "LOCTR", 0, EmptyId, 0, 0, 0) EXCEPT !.text = Chars(<<"*">>)]

\* An address expression whose location counter holds a space that is not
\* resolved yet (a reference to * behind a DS of unknown length).
UnresolvedAddrOp == Op("ASM", "EXPR", "ADDR", 0, EmptyId, 0, 0, 0)

\* An expression of one symbol, given by the characters of its name.
NamedSymOp(text) == [Op("ASM", "EXPR", "SYM", 0, EmptyId, 0, 0, 0) EXCEPT !.text = text]

\* An expression operand with the given text, neither a symbol nor *.
TextOp(text) == [Op("ASM", "EXPR", "OTHER", 0, EmptyId, 0, 0, 0) EXCEPT !.text = text]

\* A string operand: the text between the apostrophes.
StringOp(text) == [Op("ASM", "STRING", "NONE", 0, EmptyId, 0, 0, 0) EXCEPT !.text = text]

ComplexOp == Op("ASM", "COMPLEX", "NONE", 0, EmptyId, 0, 0, 0)

\* A complex operand identifier(values): the values are strings, here names
\* or the empty string.
NestedOp(identifier, values) == [ComplexOp EXCEPT !.text = identifier, !.values = values]

\* A model (non-assembler) operand.
ModelOp == Op("MODEL", "NONE", "NONE", 0, EmptyId, 0, 0, 0)

\* A data definition of a type with the given boundary, attribute and length.
DatOp(bnd, tattr, deflen, len) ==
    Op("DAT", "NONE", len.term, len.v, len.name, bnd, tattr, deflen)

NoLen == [term |-> "NONE", v |-> 0, name |-> EmptyId]

\* A data definition with a scale modifier.
DatScaleOp(bnd, tattr, deflen, len, scale) ==
    [DatOp(bnd, tattr, deflen, len) EXCEPT !.scale = scale]

SymLen(n) == [term |-> "SYM", v |-> 0, name |-> n]

\* semantics::label_si: EMPTY, an ordinary symbol or a sequence symbol.
EmptyLabel == [type |-> "EMPTY", name |-> EmptyId]

SeqLabel == [type |-> "SEQ", name |-> EmptyId]

OrdLabel(n) == [type |-> "ORD", name |-> n]

\* ------------------------------------------------------------ diagnostics

\* diagnostic_op::error_Xnnn / warning_Xnnn: the severity is the factory's.
Diag(sev, code) == [code |-> code, severity |-> sev, message |-> <<>>]

HasDiag(ds, code) == \E i \in DOMAIN ds : ds[i].code = code

\* ---------------------------------------------------------------- context

\* The context a handler starts from: the analyzer's state, and nothing yet
\* handed to the collaborators.
Ctx == [symbols |-> symbols, sections |-> sections, curr_section |-> curr_section,
        loctrs |-> loctrs, curr_loctrs |-> curr_loctrs,
        sym_deps |-> sym_deps, mnote_max |-> mnote_max, end_reached |-> end_reached,
        opcodes |-> opcodes, active_usings |-> active_usings,
        using_stack |-> using_stack, using_labels |-> using_labels,
        ainsert_front |-> ainsert_front, ainsert_back |-> ainsert_back,
        title_name |-> title_name,
        copy_members |-> copy_members, copy_stack |-> copy_stack, pending |-> pending,
        diags |-> <<>>, postponed |-> 0, effects |-> <<>>]

add_diagnostic(c, d) == [c EXCEPT !.diags = Append(@, d)]

\* symbol_dependencies().add_dependency(postponed_statement_impl, ...)
add_postponed(c) == [c EXCEPT !.postponed = @ + 1]

\* A call whose effect lies in a location counter, in the USING map or in
\* the dependency tables is recorded with its arguments.
call(c, fn, arg) == [c EXCEPT !.effects = Append(@, [fn |-> fn, arg |-> arg])]

\* context::alignment { byte, boundary }
Alignment(byte, boundary) == [byte |-> byte, boundary |-> boundary]

no_align == Alignment(0, 1)

halfword == Alignment(0, 2)

fullword == Alignment(0, 4)

doubleword == Alignment(0, 8)

\* ord_ctx.align(alignment)
align(c, al) == call(c, "align", <<al.byte, al.boundary>>)

\* ord_ctx.reserve_storage_area(length, alignment)
reserve_storage_area(c, length, al) ==
    call(c, "reserve_storage_area", <<length, al.byte, al.boundary>>)

find_label_symbol(st) == IF st.label.type = "ORD" THEN st.label.name ELSE EmptyId

symbol_defined(c, name) == name # EmptyId /\ c.symbols[name] # NoSymbol

section_defined(c, name, kind) == [name |-> name, kind |-> kind] \in c.sections

\* A value: symbol_value() is undefined, an absolute one carries its number,
\* a relocatable one an address (the address itself is not modelled).
UndefValue == [kind |-> "UNDEF", val |-> 0]

AbsValue(v) == [kind |-> "ABS", val |-> v]

RelocValue == [kind |-> "RELOC", val |-> 0]

MakeSymbol(value, attrs) ==
    [Symbol(value.kind, value.val, attrs.origin, attrs.type, attrs.length)
        EXCEPT !.scale = attrs.scale]

SectionSymbol == MakeSymbol(RelocValue, FactoryAttrs("SECT"))

\* low_language_processor::create_symbol: ord_ctx.create_symbol refuses a
\* defined name, and the refusal is diagnosed with E031.
create_symbol_ok(c, name) == ~symbol_defined(c, name)

create_symbol(c, name, value, attrs) ==
    IF create_symbol_ok(c, name)
    THEN [c EXCEPT !.symbols = [@ EXCEPT ![name] = MakeSymbol(value, attrs)]]
    ELSE add_diagnostic(c, Diag("error", "E031"))

\* A location counter: the section that owns it and its name; the first
\* counter of a section has the name of the section.
Loctr(sect, name) == [sect |-> sect, name |-> name]

\* ord_ctx.set_section: re-enter the section of that name and kind, or create
\* it (and the symbol of a named one, and its first location counter) and
\* enter it.
set_section(c, name, kind) ==
    LET s == [name |-> name, kind |-> kind] IN
    IF s \in c.sections
    THEN [c EXCEPT !.curr_section = s]
    ELSE [c EXCEPT !.sections = @ \cup {s},
                   !.curr_section = s,
                   !.loctrs = @ \cup {Loctr(s, name)},
                   !.curr_loctrs = @ \cup {Loctr(s, name)},
                   !.symbols = IF name = EmptyId THEN @
                               ELSE [@ EXCEPT ![name] = SectionSymbol]]

\* ord_ctx.counter_defined: a location counter of that name is in a section.
counter_defined(c, name) == \E l \in c.loctrs : l.name = name

\* ord_ctx.set_location_counter: in a private section if there is no section
\* yet, make the counter of that name the current one of its section and
\* enter that section; a counter that is not there is created in the current
\* section, with its symbol.
set_location_counter(c, name) ==
    LET c0 == IF c.curr_section = NoSection THEN set_section(c, EmptyId, "EXECUTABLE") ELSE c IN
    IF counter_defined(c0, name)
    THEN LET l == CHOOSE l \in c0.loctrs : l.name = name IN
         [c0 EXCEPT !.curr_section = l.sect,
                    !.curr_loctrs = {x \in @ : x.sect # l.sect} \cup {l}]
    ELSE LET l == Loctr(c0.curr_section, name) IN
         [c0 EXCEPT !.loctrs = @ \cup {l},
                    !.curr_loctrs = {x \in @ : x.sect # l.sect} \cup {l},
                    !.symbols = IF name = EmptyId THEN @
                                ELSE [@ EXCEPT ![name] = SectionSymbol]]

\* ------------------------------------------------- CSECT, DSECT, RSECT, COM

do_other_private_sections_exist(c, sect_name, kind) ==
    \E k \in {"COMMON", "EXECUTABLE", "READONLY"} :
        k # kind /\ section_defined(c, sect_name, k)

\* A process_sect that does not look for private sections of another kind.
process_sect_named_only(c, kind, st) ==
    LET sect_name == find_label_symbol(st)
        c1 == IF /\ sect_name # EmptyId
                 /\ symbol_defined(c, sect_name)
                 /\ ~section_defined(c, sect_name, kind)
              THEN add_diagnostic(c, Diag("error", "E031"))
              ELSE set_section(c, sect_name, kind)
    IN add_postponed(c1)

process_sect(c, kind, st) ==
    LET sect_name == find_label_symbol(st)
        c1 == IF \/ /\ sect_name # EmptyId
                     /\ symbol_defined(c, sect_name)
                     /\ ~section_defined(c, sect_name, kind)
                 \/ /\ sect_name = EmptyId
                     /\ kind # "DUMMY"
                     /\ do_other_private_sections_exist(c, sect_name, kind)
              THEN add_diagnostic(c, Diag("error", "E031"))
              ELSE set_section(c, sect_name, kind)
    IN add_postponed(c1)

SectKind(op) ==
    CASE op = "CSECT" -> "EXECUTABLE"
      [] op = "DSECT" -> "DUMMY"
      [] op = "RSECT" -> "READONLY"
      [] op = "COM" -> "COMMON"

\* -------------------------------------------------------------------- LOCTR

process_LOCTR(c, st) ==
    LET loctr_name == find_label_symbol(st)
        c1 == IF loctr_name = EmptyId THEN add_diagnostic(c, Diag("error", "E053")) ELSE c
        c2 == IF symbol_defined(c1, loctr_name) /\ ~counter_defined(c1, loctr_name)
              THEN add_diagnostic(c1, Diag("error", "E031"))
              ELSE set_location_counter(c1, loctr_name)
    IN add_postponed(c2)

\* ------------------------------------------------------------ expressions

\* expression->get_dependencies(solver).contains_dependencies(): the single
\* term names a symbol that is not defined or whose value is still undefined,
\* or it is an address with a space that is not resolved.
has_dependencies(c, op) ==
    \/ /\ op.term = "SYM"
       /\ \/ ~symbol_defined(c, op.name)
          \/ c.symbols[op.name].kind = "UNDEF"
    \/ op.term = "ADDR"

\* holder.is_address() && holder.unresolved_spaces.empty(): the dependencies
\* are those of an address alone.
is_address(c, op) == op.term = "ADDR"

\* expression->evaluate(solver, diags) of an expression without dependencies.
evaluate(c, op) ==
    CASE op.term = "NUM" -> AbsValue(op.v)
      [] op.term = "SYM" -> [kind |-> c.symbols[op.name].kind, val |-> c.symbols[op.name].val]
      [] OTHER -> RelocValue

None == [has |-> FALSE, val |-> 0]

Some(v) == [has |-> TRUE, val |-> v]

try_get_abs_value(c, op) ==
    IF ~(op.type = "ASM" /\ op.kind = "EXPR") THEN None
    ELSE IF has_dependencies(c, op) THEN None
    ELSE IF evaluate(c, op).kind # "ABS" THEN None
    ELSE Some(evaluate(c, op).val)

\* -------------------------------------------------------------------- START

\* hlasm_ctx.section_alignment().boundary
SectionAlignment == 8

\* A uint32_t as its two 16-bit halves (TLC's integers are 32-bit signed).
Half == 2 ^ 16

U32(hi, lo) == [hi |-> hi, lo |-> lo]

\* The conversion of an int32_t to uint32_t: modulo 2^32.
to_uint32(v) ==
    IF v >= 0
    THEN U32(v \div Half, v % Half)
    ELSE LET w == (v + 2147483647) + 1 IN U32((w \div Half) + (Half \div 2), w % Half)

\* uint32_t + and &~ with a mask below 2^16.
u32_add(x, m) ==
    LET lo == x.lo + m IN U32((x.hi + (lo \div Half)) % Half, lo % Half)

u32_clear(x, m) == U32(x.hi, x.lo - (x.lo % (m + 1)))

\* uint32_t offset = initial_offset; rounded up to the section alignment.
start_offset(v) ==
    LET start_section_alignment_mask == SectionAlignment - 1
        offset == to_uint32(v)
    IN IF offset.lo % SectionAlignment # 0
       THEN u32_clear(u32_add(offset, start_section_alignment_mask),
                      start_section_alignment_mask)
       ELSE offset

\* A process_START that enters a read-only section.
process_START_read_only(c, st) ==
    LET sect_name == find_label_symbol(st) IN
    IF \E s \in c.sections : s.kind = "EXECUTABLE" \/ s.kind = "READONLY"
    THEN add_diagnostic(c, Diag("error", "E073"))
    ELSE IF symbol_defined(c, sect_name)
    THEN add_diagnostic(c, Diag("error", "E031"))
    ELSE add_postponed(set_section(c, sect_name, "READONLY"))

\* A process_START that does not look for executable or read-only sections.
process_START_unchecked(c, st) ==
    LET sect_name == find_label_symbol(st) IN
    IF symbol_defined(c, sect_name)
    THEN add_diagnostic(c, Diag("error", "E031"))
    ELSE add_postponed(set_section(c, sect_name, "EXECUTABLE"))

process_START(c, st) ==
    LET sect_name == find_label_symbol(st) IN
    IF \E s \in c.sections : s.kind = "EXECUTABLE" \/ s.kind = "READONLY"
    THEN add_diagnostic(c, Diag("error", "E073"))
    ELSE IF symbol_defined(c, sect_name)
    THEN add_diagnostic(c, Diag("error", "E031"))
    ELSE LET c1 == set_section(c, sect_name, "EXECUTABLE") IN
         IF Len(st.ops) # 1
         THEN add_postponed(c1)
         ELSE LET initial_offset == try_get_abs_value(c1, st.ops[1]) IN
              IF ~initial_offset.has
              THEN add_diagnostic(c1, Diag("error", "A250"))
              ELSE LET offset == start_offset(initial_offset.val) IN
                   call(c1, "section_reserve_storage_area", <<offset.hi, offset.lo>>)

\* -------------------------------------------------------------------- OPSYN

\* The names that are operation codes of the instruction set: the odd ones.
BuiltinOpcodes == {n \in Ids : n % 2 = 1}

\* hlasm_ctx.get_operation_code(name): the name stands for an operation code.
get_operation_code(c, name) == c.opcodes[name] # EmptyId

\* hlasm_ctx.remove_mnemonic(name)
remove_mnemonic(c, name) == [c EXCEPT !.opcodes[name] = EmptyId]

\* hlasm_ctx.add_mnemonic(name, op_code): name stands for what op_code stands for.
add_mnemonic(c, name, op_code) == [c EXCEPT !.opcodes[name] = c.opcodes[op_code]]

\* The operand of OPSYN: the symbol of a single operand that is an expression
\* of one symbol, the empty name otherwise.
OPSYN_operand(operands) ==
    IF /\ Len(operands) = 1
       /\ operands[1].type = "ASM"
       /\ operands[1].kind = "EXPR"
       /\ operands[1].term = "SYM"
    THEN operands[1].name
    ELSE EmptyId

process_OPSYN(c, st) ==
    LET operands == st.ops
        label == find_label_symbol(st)
    IN
    IF label = EmptyId
    THEN IF st.label.type = "EMPTY" THEN add_diagnostic(c, Diag("error", "E053")) ELSE c
    ELSE LET operand == OPSYN_operand(operands) IN
         add_postponed(
           IF operand = EmptyId
           THEN IF get_operation_code(c, label)
                THEN remove_mnemonic(c, label)
                ELSE add_diagnostic(c, Diag("error", "E049"))
           ELSE IF get_operation_code(c, operand)
                THEN add_mnemonic(c, label, operand)
                ELSE add_diagnostic(c, Diag("error", "A246")))

\* ---------------------------------------------------------------------- END

\* hlasm_ctx.end_reached(): the call is recorded with the number of postponed
\* statements the handler has appended before it.
hlasm_end_reached(c) == call([c EXCEPT !.end_reached = TRUE], "end_reached", <<c.postponed>>)

\* The diagnostics of END: A249 for a label that is neither empty nor a
\* sequence symbol, E032 for an expression operand with an absolute value.
END_diagnostics(c, st) ==
    LET c1 == IF ~(st.label.type = "EMPTY" \/ st.label.type = "SEQ")
              THEN add_diagnostic(c, Diag("warning", "A249"))
              ELSE c
    IN IF /\ st.ops # <<>>
          /\ st.ops[1].type # "EMPTY"
          /\ st.ops[1].type = "ASM"
          /\ st.ops[1].kind = "EXPR"
          /\ evaluate(c1, st.ops[1]).kind = "ABS"
       THEN add_diagnostic(c1, Diag("error", "E032"))
       ELSE c1

\* A process_END that gives up after a diagnostic.
process_END_stopped_by_diagnostic(c, st) ==
    LET c1 == END_diagnostics(c, st) IN
    IF c1.diags # <<>> THEN add_postponed(c1) ELSE hlasm_end_reached(add_postponed(c1))

process_END(c, st) == hlasm_end_reached(add_postponed(END_diagnostics(c, st)))

\* ---------------------------------------------------------------------- EQU

\* expr_op->has_dependencies(solver, nullptr) of an operand of EQU.
expr_has_dependencies(c, op) == has_dependencies(c, op)

\* The type attribute operand: the third one, an absolute value in 0..255.
EQU_type_attr(c, ops) ==
    IF Len(ops) >= 3 /\ ops[3].type = "ASM"
    THEN IF ops[3].kind = "EXPR" /\ ~expr_has_dependencies(c, ops[3])
         THEN LET t_value == evaluate(c, ops[3]) IN
              IF t_value.kind = "ABS" /\ t_value.val >= 0 /\ t_value.val <= 255
              THEN [attr |-> t_value.val, ok |-> TRUE]
              ELSE [attr |-> undef_type, ok |-> FALSE]
         ELSE [attr |-> undef_type, ok |-> FALSE]
    ELSE [attr |-> undef_type, ok |-> TRUE]

\* The length attribute operand: the second one, an absolute value in 0..65535.
EQU_length_attr(c, ops) ==
    IF Len(ops) >= 2 /\ ops[2].type = "ASM"
    THEN IF ops[2].kind = "EXPR" /\ ~expr_has_dependencies(c, ops[2])
         THEN LET length_value == evaluate(c, ops[2]) IN
              IF length_value.kind = "ABS" /\ length_value.val >= 0 /\ length_value.val <= 65535
              THEN [attr |-> length_value.val, ok |-> TRUE]
              ELSE [attr |-> undef_length, ok |-> FALSE]
         ELSE [attr |-> undef_length, ok |-> FALSE]
    ELSE [attr |-> undef_length, ok |-> TRUE]

\* An EQU_leftmost_length that never looks at the leftmost term.
EQU_leftmost_length_always_one(c, op) == 1

\* The length attribute of a symbol whose EQU gives none: that of the leftmost
\* term if it is a symbol with a value, 1 otherwise.
EQU_leftmost_length(c, op) ==
    IF op.term = "SYM"
    THEN IF symbol_defined(c, op.name) /\ c.symbols[op.name].kind # "UNDEF"
         THEN c.symbols[op.name].length
         ELSE 1
    ELSE 1

\* The symbols a symbol's posted dependencies lead to.
RECURSIVE Reach(_, _)
Reach(deps, S) ==
    LET S2 == S \cup {d.on : d \in {x \in deps : x.target \in S}} IN
    IF S2 = S THEN S ELSE Reach(deps, S2)

\* symbol_dependencies().add_dependency(name, expression, statement, ...):
\* refused when the symbol would depend on itself; posted, with the statement
\* it carries, otherwise.
add_dependency_ok(c, name, op) == name \notin Reach(c.sym_deps, {op.name})

add_dependency(c, name, op) ==
    IF add_dependency_ok(c, name, op)
    THEN add_postponed([c EXCEPT !.sym_deps = @ \cup {[target |-> name, on |-> op.name]}])
    ELSE c

\* A process_EQU that posts no dependency for a value it cannot evaluate.
process_EQU_without_dependency(c, st) ==
    LET c0 == align(c, no_align)
        symbol_name == find_label_symbol(st)
        ops == st.ops
    IN
    IF symbol_name = EmptyId
    THEN IF st.label.type = "EMPTY" THEN add_diagnostic(c0, Diag("error", "E053")) ELSE c0
    ELSE IF symbol_defined(c0, symbol_name)
    THEN add_diagnostic(c0, Diag("error", "E031"))
    ELSE IF Len(ops) = 0 \/ Len(ops) > 5
    THEN add_diagnostic(c0, Diag("error", "A012"))
    ELSE
    LET t == EQU_type_attr(c0, ops)
        c1 == IF t.ok THEN c0 ELSE add_diagnostic(c0, Diag("error", "A134"))
        l == EQU_length_attr(c1, ops)
        c2 == IF l.ok THEN c1 ELSE add_diagnostic(c1, Diag("error", "A133"))
    IN
    IF ops[1].type # "ASM" \/ ops[1].kind # "EXPR"
    THEN add_diagnostic(c2, Diag("error", "A132"))
    ELSE
    LET length_attr == IF l.attr = undef_length THEN EQU_leftmost_length(c2, ops[1]) ELSE l.attr
        attrs == Attrs("EQU", t.attr, length_attr)
    IN
    IF ~has_dependencies(c2, ops[1])
    THEN create_symbol(c2, symbol_name, evaluate(c2, ops[1]), attrs)
    ELSE IF is_address(c2, ops[1])
    THEN create_symbol(c2, symbol_name, RelocValue, attrs)
    ELSE create_symbol(c2, symbol_name, UndefValue, attrs)

process_EQU(c, st) ==
    LET c0 == align(c, no_align)
        symbol_name == find_label_symbol(st)
        ops == st.ops
    IN
    IF symbol_name = EmptyId
    THEN IF st.label.type = "EMPTY" THEN add_diagnostic(c0, Diag("error", "E053")) ELSE c0
    ELSE IF symbol_defined(c0, symbol_name)
    THEN add_diagnostic(c0, Diag("error", "E031"))
    ELSE IF Len(ops) = 0 \/ Len(ops) > 5
    THEN add_diagnostic(c0, Diag("error", "A012"))
    ELSE
    LET t == EQU_type_attr(c0, ops)
        c1 == IF t.ok THEN c0 ELSE add_diagnostic(c0, Diag("error", "A134"))
        l == EQU_length_attr(c1, ops)
        c2 == IF l.ok THEN c1 ELSE add_diagnostic(c1, Diag("error", "A133"))
    IN
    IF ops[1].type # "ASM" \/ ops[1].kind # "EXPR"
    THEN add_diagnostic(c2, Diag("error", "A132"))
    ELSE
    LET length_attr == IF l.attr = undef_length THEN EQU_leftmost_length(c2, ops[1]) ELSE l.attr
        attrs == Attrs("EQU", t.attr, length_attr)
    IN
    IF ~has_dependencies(c2, ops[1])
    THEN create_symbol(c2, symbol_name, evaluate(c2, ops[1]), attrs)
    ELSE IF is_address(c2, ops[1])
    THEN create_symbol(c2, symbol_name, RelocValue, attrs)
    ELSE LET c3 == create_symbol(c2, symbol_name, UndefValue, attrs) IN
         IF ~create_symbol_ok(c2, symbol_name) THEN c3
         ELSE IF add_dependency_ok(c3, symbol_name, ops[1])
         THEN add_dependency(c3, symbol_name, ops[1])
         ELSE add_diagnostic(c3, Diag("error", "E033"))

\* ------------------------------------------------------------------ DC, DS

\* data_definition::get_length_attribute: the length modifier if it is there,
\* the length of the type otherwise; a modifier that does not evaluate to an
\* absolute value counts as 0.
get_length_attribute(c, op) ==
    IF op.term = "NONE" THEN op.deflen
    ELSE IF evaluate(c, op).kind = "ABS" THEN evaluate(c, op).val
    ELSE 0

\* length->get_dependencies(solver).contains_dependencies()
length_has_dependencies(c, op) == op.term # "NONE" /\ has_dependencies(c, op)

\* symbol::set_length
set_length(c, name, len) == [c EXCEPT !.symbols[name].length = len]

\* data_definition::get_scale_attribute: the scale modifier if it is there
\* and evaluates to an absolute value, 0 otherwise.
get_scale_attribute(c, op) ==
    IF op.scale.term = "NONE" THEN 0
    ELSE IF evaluate(c, op.scale).kind = "ABS" THEN evaluate(c, op.scale).val
    ELSE 0

\* scale->get_dependencies(solver).contains_dependencies()
scale_has_dependencies(c, op) == op.scale.term # "NONE" /\ has_dependencies(c, op.scale)

\* symbol::set_scale
set_scale(c, name, scale) == [c EXCEPT !.symbols[name].scale = scale]

\* A data_label that defines the label whether it is defined or not.
data_label_redefining(c, label, data_op) ==
    [c EXCEPT !.symbols[label] = MakeSymbol(RelocValue, Attrs("DAT", data_op.tattr, undef_length))]

\* The label of a data definition statement (lines 297-359).
data_label(c, label, data_op) ==
    IF ~symbol_defined(c, label)
    THEN LET deps == length_has_dependencies(c, data_op)
             length_has_self_reference == deps /\ data_op.name = label
             len == IF ~deps THEN get_length_attribute(c, data_op) ELSE undef_length
             s_deps == scale_has_dependencies(c, data_op)
             scale_has_self_reference == s_deps /\ data_op.scale.name = label
             scale == IF data_op.scale.term # "NONE" /\ ~s_deps
                      THEN get_scale_attribute(c, data_op)
                      ELSE undef_scale
             c1 == create_symbol(c, label, RelocValue, DataAttrs(data_op.tattr, len, scale))
             c2 == IF length_has_self_reference /\ ~length_has_dependencies(c1, data_op)
                   THEN set_length(c1, label, get_length_attribute(c1, data_op))
                   ELSE c1
         IN IF scale_has_self_reference /\ ~scale_has_dependencies(c2, data_op)
            THEN set_scale(c2, label, get_scale_attribute(c2, data_op))
            ELSE c2
    ELSE add_diagnostic(c, Diag("error", "E031"))

\* A chunk_end that compares every operand with the boundary the chunk
\* started with.
RECURSIVE chunk_end_initial_alignment(_, _, _)
chunk_end_initial_alignment(ops, j, current_alignment) ==
    IF j > Len(ops) \/ ops[j].bnd > current_alignment THEN j
    ELSE chunk_end_initial_alignment(ops, j + 1, current_alignment)

\* The end of the chunk that starts at operand j: the first operand whose
\* boundary exceeds that of the operand before it.
RECURSIVE chunk_end(_, _, _)
chunk_end(ops, j, current_alignment) ==
    IF j > Len(ops) \/ ops[j].bnd > current_alignment THEN j
    ELSE chunk_end(ops, j + 1, ops[j].bnd)

\* A loop over the chunks whose first round stops before its first operand.
data_chunks_not_advancing(c, ops, i) ==
    IF i > Len(ops) THEN c
    ELSE call(call(c, "reserve_operands", <<i, i>>), "reserve_operands", <<i, Len(ops) + 1>>)

\* The loop over the chunks (lines 387-432): a chunk with length dependencies
\* registers a space, any other reserves the length of its operands.
RECURSIVE data_chunks(_, _, _)
data_chunks(c, ops, i) ==
    IF i > Len(ops) THEN c
    ELSE LET e == chunk_end(ops, i, ops[i].bnd)
             c0 == align(c, Alignment(0, ops[i].bnd))
             has_length_dependencies == \E j \in i..(e - 1) : length_has_dependencies(c, ops[j])
         IN data_chunks(IF has_length_dependencies
                        THEN call(c0, "register_ordinary_space", <<i, e, ops[e - 1].bnd>>)
                        ELSE call(c0, "reserve_operands", <<i, e>>),
                        ops, e)

\* An add_attr_dependency that posts nothing.
add_attr_dependency_dropped(c, label, attr, dep, ok) == c

\* adder.add_dependency(label, data_attr_kind::L, l_dep) and the same for S:
\* the dependency of the attribute on the symbol its modifier names.  Whether
\* it closes a cycle is the answer of the dependency tables, which hold the
\* attributes other statements refer to; the handler is given the answer, ok.
add_attr_dependency(c, label, attr, dep, ok) ==
    call(c, IF attr = "L" THEN "add_dependency_L" ELSE "add_dependency_S", <<label, dep.name, ok>>)

\* adder.add_dependency(space, &d), once for every registered space.
RECURSIVE add_space_dependencies(_, _)
add_space_dependencies(c, i) ==
    IF i > Len(c.effects) THEN c
    ELSE add_space_dependencies(
            IF c.effects[i].fn = "register_ordinary_space"
            THEN call(c, "add_dependency_space", c.effects[i].arg)
            ELSE c, i + 1)

\* cycles are the attributes, of L and S, whose dependency the dependency
\* tables find to close a cycle.
process_data_instruction(c, st, cycles) ==
    LET ops == st.ops IN
    IF Len(ops) = 0 \/ \E i \in DOMAIN ops : ops[i].type = "EMPTY"
    THEN add_postponed(c)
    ELSE
    LET c0 == align(c, Alignment(0, ops[1].bnd))
        label == find_label_symbol(st)
        c1 == IF label # EmptyId THEN data_label(c0, label, ops[1]) ELSE c0
        l_dep == label # EmptyId /\ length_has_dependencies(c1, ops[1])
        s_dep == label # EmptyId /\ scale_has_dependencies(c1, ops[1])
        c2 == data_chunks(c1, ops, 1)
        c3 == add_postponed(c2)
        c4 == IF l_dep THEN add_attr_dependency(c3, label, "L", ops[1], "L" \notin cycles) ELSE c3
        c5 == IF s_dep
              THEN add_attr_dependency(c4, label, "S", ops[1].scale, "S" \notin cycles)
              ELSE c4
        cycle_ok == ~(l_dep /\ "L" \in cycles) /\ ~(s_dep /\ "S" \in cycles)
        c6 == IF ~cycle_ok THEN add_diagnostic(c5, Diag("error", "E033")) ELSE c5
    IN add_space_dependencies(c6, 1)

\* ---------------------------------------------------------------------- ORG

IsPowerOf2(v) == \E k \in 0..30 : v = 2 ^ k

\* The loop over the operands of ORG (lines 584-624): r.ret says that the
\* handler has returned, r.reloc that the first operand is an expression.
RECURSIVE ORG_operands(_, _, _)
ORG_operands(r, ops, i) ==
    IF i > Len(ops) THEN r
    ELSE IF ops[i].type # "ASM" THEN ORG_operands(r, ops, i + 1)
    ELSE IF ops[i].kind # "EXPR"
    THEN IF i # 1 THEN [r EXCEPT !.c = add_diagnostic(@, Diag("error", "A115"))] ELSE r
    ELSE IF i = 1 THEN ORG_operands([r EXCEPT !.reloc = TRUE], ops, i + 1)
    ELSE IF i = 2
    THEN LET val == try_get_abs_value(r.c, ops[i]) IN
         IF ~val.has \/ val.val < 2 \/ val.val > 4096 \/ ~IsPowerOf2(val.val)
         THEN [r EXCEPT !.c = add_diagnostic(@, Diag("error", "A116")), !.ret = TRUE]
         ELSE ORG_operands([r EXCEPT !.boundary = val.val], ops, i + 1)
    ELSE IF i = 3
    THEN LET val == try_get_abs_value(r.c, ops[i]) IN
         IF ~val.has
         THEN [r EXCEPT !.c = add_diagnostic(@, Diag("error", "A115")), !.ret = TRUE]
         ELSE ORG_operands([r EXCEPT !.offset = val.val], ops, i + 1)
    ELSE ORG_operands(r, ops, i + 1)

\* check is the answer of check_address_for_ORG, which compares addresses.
process_ORG(c, st, check) ==
    LET label == find_label_symbol(st)
        c0 == align(c, no_align)
        c1 == IF label # EmptyId
              THEN IF symbol_defined(c0, label)
                   THEN add_diagnostic(c0, Diag("error", "E031"))
                   ELSE create_symbol(c0, label, RelocValue, FactoryAttrs("ORG"))
              ELSE c0
        ops == st.ops
    IN
    IF Len(ops) = 0 \/ (Len(ops) = 2 /\ ops[1].type = "EMPTY" /\ ops[2].type = "EMPTY")
    THEN call(c1, "set_available_location_counter_value", <<>>)
    ELSE
    LET r == ORG_operands([c |-> c1, reloc |-> FALSE, boundary |-> 0, offset |-> 0, ret |-> FALSE],
                          ops, 1)
    IN
    IF r.ret THEN r.c
    ELSE IF ~r.reloc THEN add_diagnostic(r.c, Diag("error", "A245"))
    ELSE
    LET undefined_absolute_part == has_dependencies(r.c, ops[1]) IN
    IF ~undefined_absolute_part /\ evaluate(r.c, ops[1]).kind # "RELOC"
    THEN add_diagnostic(r.c, Diag("error", "A245"))
    ELSE IF check = "underflow" THEN add_diagnostic(r.c, Diag("error", "E068"))
    ELSE IF check = "invalid_address" THEN add_diagnostic(r.c, Diag("error", "A115"))
    ELSE
    LET reloc_val == IF ~undefined_absolute_part THEN [from |-> "expression", expr |-> ops[1]]
                     ELSE IF ops[1].term = "ADDR" THEN [from |-> "unresolved_address", expr |-> ops[1]]
                     ELSE [from |-> "loctr", expr |-> ops[1]]
        c2 == IF undefined_absolute_part
              THEN add_postponed(call(r.c, "set_location_counter_value_postponed",
                                      <<reloc_val, r.boundary, r.offset>>))
              ELSE call(r.c, "set_location_counter_value", <<reloc_val, r.boundary, r.offset>>)
    IN IF r.boundary > 1 /\ r.offset = 0 THEN align(c2, Alignment(0, r.boundary)) ELSE c2

\* ---------------------------------------------- CCW, CNOP, LTORG, CXD, DROP

\* The label of a statement that defines it at the location counter.
loctr_label(c, st, attrs) ==
    LET label == find_label_symbol(st) IN
    IF label # EmptyId
    THEN IF symbol_defined(c, label)
         THEN add_diagnostic(c, Diag("error", "E031"))
         ELSE create_symbol(c, label, RelocValue, attrs)
    ELSE c

process_CCW(c, st) ==
    LET ccw_align == doubleword
        ccw_length == 8
        c1 == loctr_label(align(c, ccw_align), st, FactoryAttrs("CCW"))
    IN add_postponed(reserve_storage_area(c1, ccw_length, ccw_align))

process_CNOP(c, st) ==
    LET c1 == loctr_label(align(c, halfword), st, FactoryAttrs("CNOP"))
        c2 == IF Len(st.ops) = 2
              THEN LET byte_value == try_get_abs_value(c1, st.ops[1])
                       boundary_value == try_get_abs_value(c1, st.ops[2])
                   IN IF /\ byte_value.has /\ boundary_value.has
                         /\ byte_value.val >= 0 /\ boundary_value.val > 0
                         /\ IsPowerOf2(boundary_value.val)
                         /\ byte_value.val < boundary_value.val
                         /\ byte_value.val % 2 = 0
                      THEN reserve_storage_area(c1, 0, Alignment(byte_value.val, boundary_value.val))
                      ELSE c1
              ELSE c1
    IN add_postponed(c2)

\* 'U'_ebcdic and 'A'_ebcdic
U_ebcdic == 228

A_ebcdic == 193

process_LTORG(c, st) ==
    LET sectalgn == 8
        c1 == loctr_label(align(c, Alignment(0, sectalgn)), st, Attrs("EQU", U_ebcdic, 1))
    IN add_postponed(call(c1, "generate_pool", <<>>))

process_CXD(c, st) ==
    LET cxd_length == 4
        c1 == loctr_label(align(c, fullword), st, Attrs("ASM", A_ebcdic, cxd_length))
    IN reserve_storage_area(c1, cxd_length, no_align)

\* The loop over the operands of DROP (lines 1248-1256): r.bases are the
\* operands that are expressions, by position.
RECURSIVE DROP_operands(_, _, _)
\* hlasm_ctx.using_remove(bases, ...): the registers are bases no more; all
\* of them when no register is given.
using_remove(c, bases) ==
    call([c EXCEPT !.active_usings = IF bases = <<>> THEN {}
                                     ELSE @ \ {bases[i] : i \in DOMAIN bases}],
         "using_remove", bases)

DROP_operands(r, ops, i) ==
    IF i > Len(ops) THEN r
    ELSE IF ops[i].type # "ASM" \/ ops[i].kind # "EXPR"
    THEN DROP_operands([r EXCEPT !.c = add_diagnostic(@, Diag("error", "A141"))], ops, i + 1)
    ELSE DROP_operands([r EXCEPT !.bases = Append(@, ops[i].v)], ops, i + 1)

process_DROP(c, st) ==
    LET c0 == align(c, no_align)
        label == find_label_symbol(st)
        c1 == IF label # EmptyId
              THEN IF symbol_defined(c0, label)
                   THEN add_diagnostic(c0, Diag("error", "E031"))
                   ELSE create_symbol(add_diagnostic(c0, Diag("warning", "A251")),
                                      label, RelocValue, FactoryAttrs("EQU"))
              ELSE c0
        ops == st.ops
        r == IF Len(ops) # 0 /\ ~(Len(ops) = 2 /\ ops[1].type = "EMPTY" /\ ops[2].type = "EMPTY")
             THEN DROP_operands([c |-> c1, bases |-> <<>>], ops, 1)
             ELSE [c |-> c1, bases |-> <<>>]
    IN using_remove(r.c, r.bases)

\* ------------------------------------------------------------- EXTRN, WXTRN

\* ord_ctx.create_external_section: the section and its symbol; the current
\* section stays.
create_external_section(c, name, s_kind) ==
    [c EXCEPT !.sections = @ \cup {[name |-> name, kind |-> s_kind]},
              !.symbols = [@ EXCEPT ![name] = SectionSymbol]]

add_external(c, s_kind, name) ==
    IF symbol_defined(c, name)
    THEN add_diagnostic(c, Diag("error", "E031"))
    ELSE create_external_section(c, name, s_kind)

\* utils::to_upper_copy
to_upper(ch) ==
    CASE ch = "p" -> "P"
      [] ch = "a" -> "A"
      [] ch = "r" -> "R"
      [] ch = "t" -> "T"
      [] OTHER -> ch

to_upper_copy(text) == [i \in DOMAIN text |-> Run(to_upper(text[i].ch), text[i].n)]

PART_text == Chars(<<"P", "A", "R", "T">>)

\* The values of PART(...): every string that is not empty is a name.
RECURSIVE external_nested(_, _, _, _)
external_nested(c, s_kind, values, j) ==
    IF j > Len(values) THEN c
    ELSE external_nested(IF values[j] # EmptyId THEN add_external(c, s_kind, values[j]) ELSE c,
                         s_kind, values, j + 1)

\* One operand of EXTRN or WXTRN.
external_operand(c, s_kind, op) ==
    IF op.type # "ASM" THEN c
    ELSE IF op.kind = "EXPR"
    THEN IF op.term = "SYM" THEN add_external(c, s_kind, op.name) ELSE c
    ELSE IF op.kind = "COMPLEX"
    THEN IF to_upper_copy(op.text) # PART_text THEN c
         ELSE external_nested(c, s_kind, op.values, 1)
    ELSE c

\* The operands up to the first one that adds a diagnostic.
RECURSIVE external_operands_until_diagnostic(_, _, _, _)
external_operands_until_diagnostic(c, s_kind, ops, i) ==
    IF i > Len(ops) \/ HasDiag(c.diags, "E031") THEN c
    ELSE external_operands_until_diagnostic(external_operand(c, s_kind, ops[i]), s_kind, ops, i + 1)

RECURSIVE external_operands(_, _, _, _)
external_operands(c, s_kind, ops, i) ==
    IF i > Len(ops) THEN c
    ELSE external_operands(external_operand(c, s_kind, ops[i]), s_kind, ops, i + 1)

external_label(c, st) ==
    IF st.label.type # "EMPTY"
    THEN IF st.label.type # "SEQ"
         THEN add_diagnostic(c, Diag("warning", "A249"))
         ELSE call(c, "register_sequence_symbol", <<>>)
    ELSE c

process_external(c, st, t) ==
    LET s_kind == IF t = "strong" THEN "EXTERNAL" ELSE "WEAK_EXTERNAL" IN
    add_postponed(external_operands(external_label(c, st), s_kind, st.ops, 1))

\* -------------------------------------------------------------------- USING

\* low_language_processor::find_using_label
find_using_label(st) == IF st.label.type = "ORD" THEN st.label.name ELSE EmptyId

\* ord_ctx.register_using_label, ord_ctx.is_using_label
register_using_label(c, label) == [c EXCEPT !.using_labels = @ \cup {label}]

is_using_label(c, label) == label \in c.using_labels

\* hlasm_ctx.using_add(label, begin, end, bases, ...): the registers are bases.
using_add(c, label, bases) ==
    call([c EXCEPT !.active_usings = @ \cup {bases[i] : i \in DOMAIN bases}],
         "using_add", <<label>> \o bases)

\* The register operands of USING: the first one that is no expression ends
\* the statement with A164.
RECURSIVE USING_bases(_, _, _)
USING_bases(r, ops, i) ==
    IF i > Len(ops) THEN r
    ELSE IF ops[i].type # "ASM" \/ ops[i].kind # "EXPR"
    THEN [r EXCEPT !.c = add_diagnostic(@, Diag("error", "A164")), !.ok = FALSE]
    ELSE USING_bases([r EXCEPT !.bases = Append(@, ops[i].v)], ops, i + 1)

process_USING(c, st) ==
    LET c0 == align(c, no_align)
        label == find_using_label(st)
        registered == label # EmptyId /\ ~symbol_defined(c0, label)
        c1 == IF registered THEN register_using_label(c0, label) ELSE c0
        ops == st.ops
    IN
    IF label # EmptyId /\ ~registered /\ ~is_using_label(c0, label)
    THEN add_diagnostic(c0, Diag("error", "E031"))
    ELSE IF Len(ops) < 2 \/ Len(ops) > 17
    THEN add_diagnostic(c1, Diag("error", "A012"))
    ELSE IF ops[1].type # "ASM"
    THEN add_diagnostic(c1, Diag("error", "A104"))
    ELSE IF ops[1].kind \notin {"EXPR", "BASE_END"}
    THEN add_diagnostic(c1, Diag("error", "A104"))
    ELSE LET r == USING_bases([c |-> c1, bases |-> <<>>, ok |-> TRUE], ops, 2) IN
         IF r.ok THEN using_add(r.c, label, r.bases) ELSE r.c

\* ---------------------------------------------------------------- PUSH, POP

\* The text "USING".
USING_text == Chars(<<"U", "S", "I", "N", "G">>)

\* asm_expr_quals(op, value): an expression operand whose text is the value.
asm_expr_quals(op, value) == op.type = "ASM" /\ op.kind = "EXPR" /\ op.text = value

\* hlasm_ctx.using_push(): the USING state is saved.
using_push(c) == [c EXCEPT !.using_stack = Append(@, c.active_usings)]

\* hlasm_ctx.using_pop(): false when no state is saved; the state saved last
\* is the USING state again, and saved no more, otherwise.
using_pop_ok(c) == c.using_stack # <<>>

using_pop(c) ==
    IF using_pop_ok(c)
    THEN [c EXCEPT !.active_usings = c.using_stack[Len(c.using_stack)],
                   !.using_stack = SubSeq(@, 1, Len(@) - 1)]
    ELSE c

process_PUSH(c, st) ==
    LET ops == st.ops
        c1 == IF \E i \in DOMAIN ops : asm_expr_quals(ops[i], USING_text)
              THEN using_push(c)
              ELSE c
    IN add_postponed(c1)

\* A process_POP that restores the USING state whatever its operands name.
process_POP_any_operand(c, st) ==
    LET ops == st.ops
        c1 == IF ops # <<>>
              THEN IF using_pop_ok(c) THEN using_pop(c)
                   ELSE add_diagnostic(c, Diag("error", "A165"))
              ELSE c
    IN add_postponed(c1)

process_POP(c, st) ==
    LET ops == st.ops
        c1 == IF \E i \in DOMAIN ops : asm_expr_quals(ops[i], USING_text)
              THEN IF using_pop_ok(c) THEN using_pop(c)
                   ELSE add_diagnostic(c, Diag("error", "A165"))
              ELSE c
    IN add_postponed(c1)

\* --------------------------------------------------------------------- COPY

\* The operand of COPY: r.has says that it is a single symbol, r.c carries
\* the E058 of one that is not.
extract_copy_id(c, st) ==
    IF Len(st.ops) # 1 \/ st.ops[1].type # "ASM" \/ st.ops[1].kind # "EXPR"
    THEN [has |-> FALSE, name |-> EmptyId, c |-> add_diagnostic(c, Diag("error", "E058"))]
    ELSE IF st.ops[1].term # "SYM"
    THEN [has |-> FALSE, name |-> EmptyId, c |-> add_diagnostic(c, Diag("error", "E058"))]
    ELSE [has |-> TRUE, name |-> st.ops[1].name, c |-> c]

\* hlasm_ctx.enter_copy_member
enter_copy_member(c, name) == [c EXCEPT !.copy_stack = Append(@, name)]

OnStack(stack, name) == \E i \in DOMAIN stack : stack[i] = name

\* A common_copy_postprocess that takes a failed fetch for a successful one.
common_copy_postprocess_any_result(c, processed, name) ==
    IF OnStack(c.copy_stack, name)
    THEN add_diagnostic(c, Diag("error", "E062"))
    ELSE enter_copy_member(c, name)

\* A common_copy_postprocess that does not look at the copy stack.
common_copy_postprocess_no_cycle_check(c, processed, name) ==
    IF ~processed
    THEN add_diagnostic(c, Diag("error", "E058"))
    ELSE enter_copy_member(c, name)

common_copy_postprocess(c, processed, name) ==
    IF ~processed
    THEN add_diagnostic(c, Diag("error", "E058"))
    ELSE IF OnStack(c.copy_stack, name)
    THEN add_diagnostic(c, Diag("error", "E062"))
    ELSE enter_copy_member(c, name)

\* branch_provider.request_external_processing(name, COPY, callback): the
\* callback waits for the completion of the request.
request_external_processing(c, name) ==
    [call(c, "request_external_processing", <<name>>) EXCEPT !.pending = Request(name)]

\* A process_COPY that asks for every member, cached or not.
process_COPY_uncached(c, st) ==
    IF Len(st.ops) = 1 /\ st.ops[1].type = "ASM" /\ st.ops[1].kind = "EXPR"
    THEN LET extract == extract_copy_id(c, st) IN
         IF extract.has
         THEN request_external_processing(extract.c, extract.name)
         ELSE extract.c
    ELSE add_postponed(c)

process_COPY(c, st) ==
    IF Len(st.ops) = 1 /\ st.ops[1].type = "ASM" /\ st.ops[1].kind = "EXPR"
    THEN LET extract == extract_copy_id(c, st) IN
         IF extract.has
         THEN IF extract.name \in c.copy_members
              THEN common_copy_postprocess(extract.c, TRUE, extract.name)
              ELSE request_external_processing(extract.c, extract.name)
         ELSE extract.c
    ELSE add_postponed(c)

\* The processing mode of the processing manager: it waits in CopyFetch while
\* a request is in flight.
pm_state(p) == IF p.has THEN "CopyFetch" ELSE "Ordinary"

\* -------------------------------------------------------------------- MNOTE

\* checking::MNOTE_max_message_length, MNOTE_max_operands_length
MNOTE_max_message_length == 1020

MNOTE_max_operands_length == 1024

\* std::string_view::size()
RECURSIVE size(_)
size(text) == IF text = <<>> THEN 0 ELSE Head(text).n + size(Tail(text))

\* std::string_view::substr(0, count)
RECURSIVE substr(_, _)
substr(text, count) ==
    IF text = <<>> \/ count <= 0 THEN <<>>
    ELSE IF Head(text).n <= count
    THEN <<Head(text)>> \o substr(Tail(text), count - Head(text).n)
    ELSE <<Run(Head(text).ch, count)>>

\* The characters of a text, one by one.
RECURSIVE expand(_)
expand(text) ==
    IF text = <<>> THEN <<>>
    ELSE IF Head(text).n = 1 THEN <<Head(text).ch>> \o expand(Tail(text))
    ELSE <<Head(text).ch>> \o expand(<<Run(Head(text).ch, Head(text).n - 1)>> \o Tail(text))

Digits == <<"0", "1", "2", "3", "4", "5", "6", "7", "8", "9">>

IsDigit(ch) == \E d \in DOMAIN Digits : Digits[d] = ch

DigitValue(ch) == (CHOOSE d \in DOMAIN Digits : Digits[d] = ch) - 1

\* std::from_chars on an int: the digits from position i on are folded into
\* the magnitude acc; r.ok is false when the value does not fit an int, r.ptr
\* is the position after the last digit.
IntMax == 2147483647

RECURSIVE from_chars_digits(_, _, _, _)
from_chars_digits(cs, i, acc, ok) ==
    IF i > Len(cs) \/ ~IsDigit(cs[i]) THEN [ok |-> ok, v |-> acc, ptr |-> i]
    ELSE LET d == DigitValue(cs[i])
             fits == ok /\ acc <= (IntMax - d) \div 10
         IN from_chars_digits(cs, i + 1, IF fits THEN acc * 10 + d ELSE 0, fits)

from_chars(cs) ==
    LET neg == Len(cs) >= 1 /\ cs[1] = "-"
        first == IF neg THEN 2 ELSE 1
        r == from_chars_digits(cs, first, 0, TRUE)
    IN IF r.ptr = first THEN [ok |-> FALSE, v |-> 0, ptr |-> 1]
       ELSE [ok |-> r.ok, v |-> IF neg THEN 0 - r.v ELSE r.v, ptr |-> r.ptr]

\* try_get_number: the whole text is a number that fits an int.
try_get_number(text) ==
    LET cs == expand(text)
        ec == from_chars(cs)
    IN IF ec.ok /\ ec.ptr = Len(cs) + 1 THEN Some(ec.v) ELSE None

\* utils::append_utf8_sanitized: a character that cannot be printed is
\* replaced by its code in angle brackets.
Printable(ch) == ch # "SOH"

Sanitized(ch) == IF Printable(ch) THEN <<ch>> ELSE <<"<", "0", "1", ">">>

RECURSIVE append_utf8_sanitized(_, _)
append_utf8_sanitized(result, text) ==
    IF text = <<>> THEN result
    ELSE LET r == Head(text)
             out == IF Printable(r.ch) THEN <<r>>
                    ELSE [i \in 1..(r.n * 4) |-> Run(Sanitized(r.ch)[((i - 1) % 4) + 1], 1)]
         IN append_utf8_sanitized(result \o out, Tail(text))

\* diagnostic_op::mnote_diagnostic: the severity of a level.
mnote_severity(level) ==
    IF level >= 8 THEN "error"
    ELSE IF level >= 4 THEN "warning"
    ELSE IF level >= 2 THEN "info"
    ELSE "hint"

mnote_diagnostic(level, message) ==
    [code |-> "MNOTE", severity |-> mnote_severity(level), message |-> message]

\* hlasm_ctx.update_mnote_max
update_mnote_max(c, level) == [c EXCEPT !.mnote_max = IF level > @ THEN level ELSE @]

\* The level operand (lines 1314-1350): r.level is the level if there is one,
\* r.first_op_len the length of the text it was read from.
MNOTE_level(ops) ==
    IF Len(ops) = 1 THEN [level |-> Some(0), first_op_len |-> 0]
    ELSE IF ops[1].type = "EMPTY" THEN [level |-> Some(1), first_op_len |-> 0]
    ELSE IF ops[1].type = "ASM"
    THEN IF ops[1].kind # "EXPR" THEN [level |-> None, first_op_len |-> 0]
         ELSE IF ops[1].term = "LOCTR" THEN [level |-> Some(0), first_op_len |-> 1]
         ELSE [level |-> try_get_number(ops[1].text), first_op_len |-> size(ops[1].text)]
    ELSE [level |-> None, first_op_len |-> 0]

\* The message operand (lines 1357-1379): the text, and whether A300 is due.
MNOTE_text(op) ==
    IF op.type # "ASM" THEN [text |-> <<>>, quoted |-> FALSE]
    ELSE IF op.kind = "STRING" THEN [text |-> op.text, quoted |-> TRUE]
    ELSE IF op.kind = "EXPR" THEN [text |-> op.text, quoted |-> FALSE]
    ELSE [text |-> <<>>, quoted |-> FALSE]

\* A process_MNOTE that checks both lengths, one after the other.
process_MNOTE_both_lengths(c, st) ==
    LET ops == st.ops IN
    IF Len(ops) # 1 /\ Len(ops) # 2
    THEN add_diagnostic(c, Diag("error", "A012"))
    ELSE
    LET l == MNOTE_level(ops) IN
    IF ~l.level.has \/ l.level.val < 0 \/ l.level.val > 255
    THEN add_diagnostic(c, Diag("error", "A119"))
    ELSE
    LET t == MNOTE_text(ops[Len(ops)])
        c1 == IF t.quoted THEN c ELSE add_diagnostic(c, Diag("warning", "A300"))
        too_long == size(t.text) > MNOTE_max_message_length
        c2 == IF too_long THEN add_diagnostic(c1, Diag("error", "A117")) ELSE c1
        text == IF too_long THEN substr(t.text, MNOTE_max_message_length) ELSE t.text
        c3 == IF size(text) + l.first_op_len > MNOTE_max_operands_length
              THEN add_diagnostic(c2, Diag("error", "A118"))
              ELSE c2
    IN update_mnote_max(
           add_diagnostic(c3, mnote_diagnostic(l.level.val, append_utf8_sanitized(<<>>, text))),
           l.level.val)

\* A process_MNOTE that reports the text as it is.
process_MNOTE_unsanitized(c, st) ==
    LET ops == st.ops IN
    IF Len(ops) # 1 /\ Len(ops) # 2
    THEN add_diagnostic(c, Diag("error", "A012"))
    ELSE
    LET l == MNOTE_level(ops) IN
    IF ~l.level.has \/ l.level.val < 0 \/ l.level.val > 255
    THEN add_diagnostic(c, Diag("error", "A119"))
    ELSE update_mnote_max(
            add_diagnostic(c, mnote_diagnostic(l.level.val, MNOTE_text(ops[Len(ops)]).text)),
            l.level.val)

\* A process_MNOTE that does not check the range of the level.
process_MNOTE_any_level(c, st) ==
    LET ops == st.ops IN
    IF Len(ops) # 1 /\ Len(ops) # 2
    THEN add_diagnostic(c, Diag("error", "A012"))
    ELSE
    LET l == MNOTE_level(ops) IN
    IF ~l.level.has
    THEN add_diagnostic(c, Diag("error", "A119"))
    ELSE update_mnote_max(
            add_diagnostic(c, mnote_diagnostic(l.level.val,
                append_utf8_sanitized(<<>>, MNOTE_text(ops[Len(ops)]).text))),
            l.level.val)

process_MNOTE(c, st) ==
    LET ops == st.ops IN
    IF Len(ops) # 1 /\ Len(ops) # 2
    THEN add_diagnostic(c, Diag("error", "A012"))
    ELSE
    LET l == MNOTE_level(ops) IN
    IF ~l.level.has \/ l.level.val < 0 \/ l.level.val > 255
    THEN add_diagnostic(c, Diag("error", "A119"))
    ELSE
    LET t == MNOTE_text(ops[Len(ops)])
        c1 == IF t.quoted THEN c ELSE add_diagnostic(c, Diag("warning", "A300"))
        too_long == size(t.text) > MNOTE_max_message_length
        c2 == IF too_long
              THEN add_diagnostic(c1, Diag("error", "A117"))
              ELSE IF size(t.text) + l.first_op_len > MNOTE_max_operands_length
              THEN add_diagnostic(c1, Diag("error", "A118"))
              ELSE c1
        text == IF too_long THEN substr(t.text, MNOTE_max_message_length) ELSE t.text
        sanitized == append_utf8_sanitized(<<>>, text)
    IN update_mnote_max(add_diagnostic(c2, mnote_diagnostic(l.level.val, sanitized)),
                        l.level.val)

\* ------------------------------------------------------------------ AINSERT

\* checking::string_max_length
string_max_length == 80

FRONT_text == Chars(<<"F", "R", "O", "N", "T">>)

BACK_text == Chars(<<"B", "A", "C", "K">>)

\* AINSERT_operand_visitor: the name of the symbol of the expression, or
\* nothing when the expression is a constant, the location counter or another
\* term without a symbol.
AINSERT_operand_visitor(op) ==
    IF op.term = "SYM" THEN [empty |-> FALSE, text |-> op.text] ELSE [empty |-> TRUE, text |-> <<>>]

\* open_code_->ainsert(record, dest)
ainsert(c, record, dest) ==
    IF dest = "front"
    THEN [c EXCEPT !.ainsert_front = Append(@, record)]
    ELSE [c EXCEPT !.ainsert_back = Append(@, record)]

\* The first operand of AINSERT, once the destination is known.
AINSERT_record(c, op, dest) ==
    IF op.type = "ASM" /\ op.kind = "STRING"
    THEN LET record == op.text IN
         IF size(record) > string_max_length
         THEN add_diagnostic(c, Diag("error", "A157"))
         ELSE IF size(record) = 0
         THEN add_diagnostic(c, Diag("error", "A021"))
         ELSE ainsert(c, record, dest)
    ELSE add_diagnostic(c, Diag("error", "A301"))

process_AINSERT(c, st) ==
    LET ops == st.ops IN
    IF Len(ops) # 2
    THEN add_diagnostic(c, Diag("error", "A011"))
    ELSE IF ~(ops[2].type = "ASM" /\ ops[2].kind = "EXPR")
    THEN add_diagnostic(c, Diag("error", "A156"))
    ELSE LET value == AINSERT_operand_visitor(ops[2]) IN
         IF value.empty THEN c
         ELSE IF value.text = FRONT_text
         THEN AINSERT_record(c, ops[1], "front")
         ELSE IF value.text = BACK_text
         THEN AINSERT_record(c, ops[1], "back")
         ELSE add_diagnostic(c, Diag("error", "A156"))

\* -------------------------------------------------------------------- TITLE

\* title_label_visitor: the text of an ordinary symbol (or of a plain string)
\* in the label field; nothing for a sequence symbol, a variable symbol, a
\* concatenation, an empty field.
title_label_visitor(label) == IF label.type = "ORD" THEN label.name ELSE EmptyId

\* hlasm_ctx.get_title_name(), hlasm_ctx.set_title_name(name)
get_title_name(c) == c.title_name

set_title_name(c, name) == [c EXCEPT !.title_name = name]

\* A process_TITLE that takes the name of every TITLE that has one.
process_TITLE_last_name_wins(c, st) ==
    LET label_text == title_label_visitor(st.label) IN
    add_postponed(IF label_text # EmptyId THEN set_title_name(c, label_text) ELSE c)

process_TITLE(c, st) ==
    LET label_text == title_label_visitor(st.label)
        c1 == IF label_text # EmptyId
              THEN IF get_title_name(c) = EmptyId
                   THEN set_title_name(c, label_text)
                   ELSE add_diagnostic(c, Diag("warning", "W016"))
              ELSE c
    IN add_postponed(c1)

\* ------------------------------------------------------ preprocessor chain

\* The longest configured list of preprocessors.
MaxPreprocessors == 3

\* How often one preprocessor's task suspends before it completes.
MaxSuspensions == 1

\* preprocessor_options: the alternatives of the variant.
PreprocessorOptions == {"DB2", "CICS", "ENDEVOR"}

\* A document is its sequence of lines.
Documents == {<<>>, <<"SRC">>}

\* The document a preprocessor produces from the one it consumes.  The
\* preprocessors are no part of the modelled sources: each one is taken to
\* leave its own mark at the end of the document, so that the documents tell
\* which preprocessors ran on them and in what order.
preprocessor_replacement(p, doc) == Append(doc, p)

NotCreated == [kind |-> "unset", pp |-> <<>>]

NoTask == [pc |-> "none", i |-> 0, doc |-> <<>>]

NoInner == [state |-> "none", i |-> 0, p |-> "", doc |-> <<>>, susp |-> 0]

\* analyzer_options::get_preprocessor: no object for no option, the created
\* preprocessor itself for one option, otherwise a combined_preprocessor whose
\* pp holds the created preprocessors in the order of the options.
get_preprocessor(args) ==
    IF Len(args) = 0
    THEN [kind |-> "null", pp |-> <<>>]
    ELSE IF Len(args) = 1
         THEN [kind |-> "single", pp |-> <<Head(args)>>]
         ELSE [kind |-> "combined", pp |-> [k \in 1..Len(args) |-> args[k]]]

\* combined_preprocessor::generate_replacement, entered: the frame holds the
\* document and stands before the first preprocessor.
generate_replacement_begin(doc) == [pc |-> "for", i |-> 1, doc |-> doc]

\* The co_await of the loop body, started: p's task gets the frame's document,
\* which is moved from and holds no lines until the task's result is assigned.
generate_replacement_await(t) == [t EXCEPT !.pc = "co_await", !.doc = <<>>]

\* A loop body that keeps what the move left instead of the task's result.
generate_replacement_resume_dropping_result(t, out) ==
    [t EXCEPT !.pc = "for", !.i = @ + 1]

\* The co_await of the loop body, resumed with the result of p's task: the
\* result is assigned to the frame's document and the loop goes on.
generate_replacement_resume(t, out) ==
    [t EXCEPT !.pc = "for", !.i = @ + 1, !.doc = out]

\* The task of the i-th preprocessor, started on doc.
inner_task(i, p, doc) ==
    [state |-> "running", i |-> i, p |-> p, doc |-> doc, susp |-> 0]

log_start(t) ==
    [ev |-> "start", i |-> t.i, p |-> t.p, doc |-> t.doc, susp |-> 0]

log_complete(t, out) ==
    [ev |-> "complete", i |-> t.i, p |-> t.p, doc |-> out, susp |-> t.susp]

RECURSIVE ArgLists(_)
ArgLists(n) ==
    IF n = 0
    THEN {<<>>}
    ELSE ArgLists(n - 1)
         \cup {Append(a, p) : a \in {b \in ArgLists(n - 1) : Len(b) = n - 1},
                              p \in PreprocessorOptions}

\* The analyzer asks its options for the preprocessor.
GetPreprocessor ==
    /\ preprocessor = NotCreated
    /\ \E args \in ArgLists(MaxPreprocessors) :
         /\ preprocessor_args' = args
         /\ preprocessor' = get_preprocessor(args)
    /\ UNCHANGED <<asm_vars, stmt_count, sp_vars, pp_task, pp_inner, pp_input, replacement, pp_log>>

\* generate_replacement is called on a combined_preprocessor.
GenerateReplacement ==
    /\ preprocessor.kind = "combined"
    /\ pp_task = NoTask
    /\ \E doc \in Documents :
         /\ pp_task' = generate_replacement_begin(doc)
         /\ pp_input' = doc
    /\ UNCHANGED <<asm_vars, stmt_count, sp_vars, preprocessor_args, preprocessor, pp_inner, replacement, pp_log>>

\* generate_replacement is called on the only preprocessor: its own task starts.
GenerateReplacementSingle ==
    /\ preprocessor.kind = "single"
    /\ pp_inner = NoInner
    /\ pp_log = <<>>
    /\ \E doc \in Documents :
         /\ pp_inner' = inner_task(1, preprocessor.pp[1], doc)
         /\ pp_log' = Append(pp_log, log_start(inner_task(1, preprocessor.pp[1], doc)))
         /\ pp_input' = doc
    /\ UNCHANGED <<asm_vars, stmt_count, sp_vars, preprocessor_args, preprocessor, pp_task, replacement>>

\* The loop body: the next preprocessor's task is started and awaited.
CoAwait ==
    /\ pp_task.pc = "for"
    /\ pp_task.i <= Len(preprocessor.pp)
    /\ pp_inner' = inner_task(pp_task.i, preprocessor.pp[pp_task.i], pp_task.doc)
    /\ pp_log' = Append(pp_log, log_start(pp_inner'))
    /\ pp_task' = generate_replacement_await(pp_task)
    /\ UNCHANGED <<asm_vars, stmt_count, sp_vars, preprocessor_args, preprocessor, pp_input, replacement>>

\* The running preprocessor suspends, and everything that awaits it with it.
Suspend ==
    /\ pp_inner.state = "running"
    /\ pp_inner.susp < MaxSuspensions
    /\ pp_inner' = [pp_inner EXCEPT !.state = "suspended", !.susp = @ + 1]
    /\ UNCHANGED <<asm_vars, stmt_count, sp_vars, preprocessor_args, preprocessor, pp_task, pp_input, replacement, pp_log>>

\* The suspended preprocessor is resumed.
Resume ==
    /\ pp_inner.state = "suspended"
    /\ pp_inner' = [pp_inner EXCEPT !.state = "running"]
    /\ UNCHANGED <<asm_vars, stmt_count, sp_vars, preprocessor_args, preprocessor, pp_task, pp_input, replacement, pp_log>>

\* The running preprocessor returns its document: to the loop that awaits it,
\* or, when it is the only one, to the caller.
Complete ==
    /\ pp_inner.state = "running"
    /\ LET out == preprocessor_replacement(pp_inner.p, pp_inner.doc) IN
         /\ pp_log' = Append(pp_log, log_complete(pp_inner, out))
         /\ IF preprocessor.kind = "combined"
            THEN /\ pp_task' = generate_replacement_resume(pp_task, out)
                 /\ replacement' = replacement
            ELSE /\ pp_task' = pp_task
                 /\ replacement' = <<out>>
    /\ pp_inner' = NoInner
    /\ UNCHANGED <<asm_vars, stmt_count, sp_vars, preprocessor_args, preprocessor, pp_input>>

\* The loop is over: co_return doc.
CoReturn ==
    /\ pp_task.pc = "for"
    /\ pp_task.i > Len(preprocessor.pp)
    /\ pp_task' = [pp_task EXCEPT !.pc = "done"]
    /\ replacement' = <<pp_task.doc>>
    /\ UNCHANGED <<asm_vars, stmt_count, sp_vars, preprocessor_args, preprocessor, pp_inner, pp_input, pp_log>>

\* The preprocessor chain.
NextPreproc ==
    GetPreprocessor \/ GenerateReplacement \/ GenerateReplacementSingle \/ CoAwait
        \/ Suspend \/ Resume \/ Complete \/ CoReturn

\* -------------------------------------------------------------------- ALIAS

process_ALIAS(c, st) ==
    IF find_label_symbol(st) = EmptyId
    THEN add_diagnostic(c, Diag("error", "A163"))
    ELSE add_postponed(c)

\* ------------------------------------------------------------------ process

\* The operation codes of the table of handlers.
TableOpcodes ==
    {"CSECT", "DSECT", "RSECT", "COM", "LOCTR", "EQU", "DC", "DS", "COPY", "EXTRN", "WXTRN",
     "ORG", "OPSYN", "AINSERT", "CCW", "CCW0", "CCW1", "CNOP", "START", "ALIAS", "END",
     "LTORG", "USING", "DROP", "PUSH", "POP", "MNOTE", "CXD", "TITLE"}

\* A process that finds no handler in its table.
process_without_table(c, st, check) == add_postponed(c)

\* asm_processor::process: the handler of the operation code, or, for an
\* operation code without a handler, the statement is postponed as it is.
\* check is what the address check of ORG finds.
process(c, st, check) ==
    CASE st.op \in {"CSECT", "DSECT", "RSECT", "COM"} -> process_sect(c, SectKind(st.op), st)
      [] st.op = "LOCTR" -> process_LOCTR(c, st)
      [] st.op = "EQU" -> process_EQU(c, st)
      [] st.op \in {"DC", "DS"} -> process_data_instruction(c, st, {})
      [] st.op = "COPY" -> process_COPY(c, st)
      [] st.op = "EXTRN" -> process_external(c, st, "strong")
      [] st.op = "WXTRN" -> process_external(c, st, "weak")
      [] st.op = "ORG" -> process_ORG(c, st, check)
      [] st.op = "OPSYN" -> process_OPSYN(c, st)
      [] st.op = "AINSERT" -> process_AINSERT(c, st)
      [] st.op \in {"CCW", "CCW0", "CCW1"} -> process_CCW(c, st)
      [] st.op = "CNOP" -> process_CNOP(c, st)
      [] st.op = "START" -> process_START(c, st)
      [] st.op = "ALIAS" -> process_ALIAS(c, st)
      [] st.op = "END" -> process_END(c, st)
      [] st.op = "LTORG" -> process_LTORG(c, st)
      [] st.op = "USING" -> process_USING(c, st)
      [] st.op = "DROP" -> process_DROP(c, st)
      [] st.op = "PUSH" -> process_PUSH(c, st)
      [] st.op = "POP" -> process_POP(c, st)
      [] st.op = "MNOTE" -> process_MNOTE(c, st)
      [] st.op = "CXD" -> process_CXD(c, st)
      [] st.op = "TITLE" -> process_TITLE(c, st)
      [] OTHER -> add_postponed(c)

\* ----------------------------------------------- members_statement_provider

\* processing_kind of the processor that asks for the statement.
ProcessingKinds == {"ORDINARY", "LOOKAHEAD", "MACRO"}

\* processing_form and operand_occurrence, the two fields of the processing
\* status that the provider reads.
ProcessingForms == {"MACH", "ASM", "DEFERRED", "UNKNOWN", "IGNORED"}

Occurrences == {"PRESENT", "ABSENT"}

ProcessingStatus == [form : ProcessingForms, occurrence : Occurrences]

\* get_processing_status returned no status.
NoStatus == [form |-> "NONE", occurrence |-> "NONE"]

\* The key of a processing status in the statement cache.
processing_status_cache_key(status) == <<status.form, status.occurrence>>

CacheKeys == {processing_status_cache_key(status) : status \in ProcessingStatus}

\* The statements of the member, of each its kind, the text of its operand
\* field, and the diagnostics it was created with: cached tells whether
\* filter_cached_diagnostics keeps the diagnostic.
MemberStatements ==
    <<[kind |-> "DEFERRED", field |-> "A,B",
       diags |-> <<[diag |-> Diag("error", "S0003"), cached |-> TRUE],
                   [diag |-> Diag("warning", "W010"), cached |-> FALSE]>>],
      [kind |-> "RESOLVED", field |-> "", diags |-> <<>>],
      [kind |-> "ERROR", field |-> "", diags |-> <<>>]>>

RECURSIVE filter_cached_diagnostics(_)
filter_cached_diagnostics(ds) ==
    IF ds = <<>> THEN <<>>
    ELSE (IF Head(ds).cached THEN <<Head(ds).diag>> ELSE <<>>) \o filter_cached_diagnostics(Tail(ds))

\* parser::parse_operand_field: the operands and the diagnostics that parsing
\* the text of the operand field under the status gives.
parse_operand_field(field, status) ==
    [ops |-> <<[text |-> field, form |-> status.form]>>,
     diags |-> IF status.form = "ASM" THEN <<Diag("error", "S0002")>> ELSE <<>>]

\* statement_si_defer_done: the deferred statement with its operands.
statement_si_defer_done(base, ops) == [base |-> base, ops |-> ops]

\* The statement cache holds nothing under the key.
NoItem == [stmt |-> statement_si_defer_done(0, <<>>), diags |-> <<>>]

\* statement_cache::contains, get and insert, on the cache of statement i.
cache_contains(cache, i, key) == \E e \in cache : e.base = i /\ e.key = key

cache_get(cache, i, key) ==
    IF cache_contains(cache, i, key)
    THEN (CHOOSE e \in cache : e.base = i /\ e.key = key).item
    ELSE NoItem

cache_insert(cache, i, key, item) ==
    {e \in cache : ~(e.base = i /\ e.key = key)} \cup {[base |-> i, key |-> key, item |-> item]}

\* What get_next has in stmt and returns: nullptr, the statement of the member
\* as it is, or a resolved_statement_impl over a cached statement.
NullStmt == [kind |-> "NULL", base |-> 0, ops |-> <<>>, status |-> NoStatus]

base_statement(i) == [kind |-> MemberStatements[i].kind, base |-> i, ops |-> <<>>, status |-> NoStatus]

resolved_statement_impl(cached, status) ==
    [kind |-> "RESOLVED", base |-> cached.base, ops |-> cached.ops, status |-> status]

\* The provider before a call of get_next.
Provider == [cache |-> stmt_cache, parse_log |-> parse_log, reported |-> <<>>,
             reparsed |-> FALSE, go_back |-> FALSE, stmt |-> NullStmt, returned |-> NullStmt]

NoRetrieval == [kind |-> "NONE", base |-> 0, status |-> NoStatus, reported |-> <<>>,
                reparsed |-> FALSE, go_back |-> FALSE, stmt |-> NullStmt, returned |-> NullStmt]

\* A fill_cache that gives every operand field to the parser.
fill_cache_always_parsing(p, kind, i, status) ==
    LET def_stmt == MemberStatements[i]
        r == parse_operand_field(def_stmt.field, status)
    IN [p EXCEPT !.cache = cache_insert(@, i, processing_status_cache_key(status),
                                         [stmt |-> statement_si_defer_done(i, r.ops),
                                          diags |-> filter_cached_diagnostics(def_stmt.diags)
                                                       \o r.diags]),
                 !.parse_log = Append(@, [base |-> i, status |-> status, kind |-> kind])]

\* members_statement_provider::fill_cache; kind, the kind of the processor
\* of the call, goes into the history only.
fill_cache(p, kind, i, status) ==
    LET def_stmt == MemberStatements[i]
        key == processing_status_cache_key(status)
        reparsed_diags == filter_cached_diagnostics(def_stmt.diags)
    IN IF \/ status.occurrence = "ABSENT"
          \/ status.form = "UNKNOWN"
          \/ status.form = "IGNORED"
       THEN [p EXCEPT !.cache = cache_insert(@, i, key,
                                             [stmt |-> statement_si_defer_done(i, <<>>),
                                              diags |-> reparsed_diags])]
       ELSE LET r == parse_operand_field(def_stmt.field, status)
            IN [p EXCEPT !.cache = cache_insert(@, i, key,
                                                [stmt |-> statement_si_defer_done(i, r.ops),
                                                 diags |-> reparsed_diags \o r.diags]),
                         !.parse_log = Append(@, [base |-> i, status |-> status, kind |-> kind])]

\* A preprocess_deferred that reports the diagnostics only in the call
\* that fills the cache.
preprocess_deferred_reporting_once(p, kind, i, status) ==
    LET key == processing_status_cache_key(status)
        filled == cache_contains(p.cache, i, key)
        p1 == IF ~filled THEN fill_cache(p, kind, i, status) ELSE p
        cache_item == cache_get(p1.cache, i, key)
        p2 == IF kind # "LOOKAHEAD" /\ ~filled
              THEN [p1 EXCEPT !.reported = @ \o cache_item.diags]
              ELSE p1
    IN [p2 EXCEPT !.reparsed = TRUE, !.stmt = resolved_statement_impl(cache_item.stmt, status)]

\* members_statement_provider::preprocess_deferred
preprocess_deferred(p, kind, i, status) ==
    LET key == processing_status_cache_key(status)
        p1 == IF ~cache_contains(p.cache, i, key) THEN fill_cache(p, kind, i, status) ELSE p
        cache_item == cache_get(p1.cache, i, key)
        p2 == IF kind # "LOOKAHEAD"
              THEN [p1 EXCEPT !.reported = @ \o cache_item.diags]
              ELSE p1
    IN [p2 EXCEPT !.reparsed = TRUE, !.stmt = resolved_statement_impl(cache_item.stmt, status)]

\* members_statement_provider::get_next(processor): i is the statement the
\* provider is at, 0 when it has none; proc_status_o is what the processor's
\* get_processing_status returns; instr_lookahead and stmt_lookahead are the
\* answers of try_trigger_attribute_lookahead for the instruction and for
\* the statement.
get_next(p, kind, i, proc_status_o, instr_lookahead, stmt_lookahead) ==
    IF i = 0 THEN p
    ELSE IF kind = "ORDINARY" /\ MemberStatements[i].kind # "ERROR" /\ instr_lookahead THEN p
    ELSE LET p1 == IF MemberStatements[i].kind # "DEFERRED"
                   THEN [p EXCEPT !.stmt = base_statement(i)]
                   ELSE IF proc_status_o = NoStatus
                   THEN [p EXCEPT !.go_back = TRUE]
                   ELSE IF proc_status_o.form # "DEFERRED"
                   THEN preprocess_deferred(p, kind, i, proc_status_o)
                   ELSE [p EXCEPT !.stmt = base_statement(i)]
         IN IF p1.go_back THEN p1
            ELSE IF kind = "ORDINARY" /\ stmt_lookahead
            THEN p1
            ELSE [p1 EXCEPT !.returned = p1.stmt]

\* ------------------------------------------------------------------- steps

\* A START statement is accepted when it gets past both of its checks.
START_accepted(st, c) ==
    st.op = "START" /\ ~HasDiag(c.diags, "E073") /\ ~HasDiag(c.diags, "E031")

\* The context after a step becomes the state.
Assign(st, c, result) ==
    /\ symbols' = c.symbols
    /\ sections' = c.sections
    /\ curr_section' = c.curr_section
    /\ loctrs' = c.loctrs
    /\ curr_loctrs' = c.curr_loctrs
    /\ sym_deps' = c.sym_deps
    /\ diags' = c.diags
    /\ postponed' = c.postponed
    /\ effects' = c.effects
    /\ mnote_max' = c.mnote_max
    /\ end_reached' = c.end_reached
    /\ opcodes' = c.opcodes
    /\ active_usings' = c.active_usings
    /\ using_stack' = c.using_stack
    /\ using_labels' = c.using_labels
    /\ title_name' = c.title_name
    /\ ainsert_front' = c.ainsert_front
    /\ ainsert_back' = c.ainsert_back
    /\ copy_members' = c.copy_members
    /\ copy_stack' = c.copy_stack
    /\ pending' = c.pending
    /\ fetch_result' = result
    /\ stmt' = st
    /\ start_seen' = (start_seen \/ st.op = "START")
    /\ starts_accepted' = starts_accepted + IF START_accepted(st, c) THEN 1 ELSE 0

Step(st, c, result) ==
    /\ Assign(st, c, result)
    /\ UNCHANGED <<pp_vars, stmt_count, sp_vars>>

\* The processing of a statement.
Commit(st, c) == Step(st, c, "none")

\* The labels a handler that reads only find_label_symbol tells apart.
NameLabels == {EmptyLabel} \cup {OrdLabel(n) : n \in Ids}

SectStmts == {Stmt(op, l, <<>>) : op \in {"CSECT", "DSECT", "RSECT", "COM"}, l \in NameLabels}

Sect == \E st \in SectStmts : Commit(st, process_sect(Ctx, SectKind(st.op), st))

StartOps == {<<>>, <<NumOp(13)>>, <<ComplexOp>>}

StartStmts == {Stmt("START", l, ops) : l \in NameLabels, ops \in StartOps}

Start == \E st \in StartStmts : Commit(st, process_START(Ctx, st))

\* EQU statements between the section statements.
SectEquStmts == {Stmt("EQU", OrdLabel(n), <<NumOp(5)>>) : n \in Ids}

SectEqu == \E st \in SectEquStmts : Commit(st, process_EQU(Ctx, st))

\* The statements of the symbol-definition runs: every handler that defines
\* its label, with the operands that decide how.
C_ebcdic == 195

F_ebcdic == 198

EquStmts == {Stmt("EQU", OrdLabel(l), ops) : l \in Ids,
                                             ops \in {<<NumOp(5)>>} \cup {<<SymOp(n)>> : n \in Ids}}
            \cup {Stmt("EQU", l, <<NumOp(5)>>) : l \in {EmptyLabel, SeqLabel}}

Equ == \E st \in EquStmts : Commit(st, process_EQU(Ctx, st))

DataStmts == {Stmt("DC", l, <<DatOp(4, F_ebcdic, 4, NoLen)>>) : l \in NameLabels}
             \cup {Stmt("DS", OrdLabel(l), <<DatOp(1, C_ebcdic, 1, SymLen(1))>>) : l \in Ids}

Data == \E st \in DataStmts : Commit(st, process_data_instruction(Ctx, st, {}))

OrgStmts == {Stmt("ORG", l, <<>>) : l \in NameLabels} \cup {Stmt("ORG", EmptyLabel, <<LoctrOp>>)}

Org == \E st \in OrgStmts, check \in {"valid", "underflow", "invalid_address"} :
           Commit(st, process_ORG(Ctx, st, check))

PlainStmts(op) == {Stmt(op, l, <<>>) : l \in NameLabels}

Ccw == \E st \in PlainStmts("CCW") : Commit(st, process_CCW(Ctx, st))

Cnop == \E st \in PlainStmts("CNOP") : Commit(st, process_CNOP(Ctx, st))

Ltorg == \E st \in PlainStmts("LTORG") : Commit(st, process_LTORG(Ctx, st))

Cxd == \E st \in PlainStmts("CXD") : Commit(st, process_CXD(Ctx, st))

Drop == \E st \in PlainStmts("DROP") : Commit(st, process_DROP(Ctx, st))

\* EQU statements with their attribute operands: the value a number, a
\* symbol, an address or no expression; the length and the type attribute
\* inside and outside their ranges, a symbol, or left out.
EquValueOps == {NumOp(5), UnresolvedAddrOp, ComplexOp} \cup {SymOp(n) : n \in Ids}

EquLengthOps == {NumOp(7), NumOp(65536), SymOp(1), ComplexOp}

EquTypeOps == {NumOp(200), NumOp(256)}

EquAttrOps ==
    {<<>>, <<NumOp(5), EmptyOp, EmptyOp, EmptyOp, EmptyOp, EmptyOp>>}
    \cup {<<v>> : v \in EquValueOps}
    \cup {<<v, l>> : v \in {NumOp(5), SymOp(1)}, l \in EquLengthOps}
    \cup {<<NumOp(5), EmptyOp, t>> : t \in EquTypeOps}
    \cup {<<ComplexOp, NumOp(65536), NumOp(256)>>}

EquAttrStmts == {Stmt("EQU", OrdLabel(l), ops) : l \in Ids, ops \in EquAttrOps}
                \cup {Stmt("EQU", l, <<NumOp(5)>>) : l \in {EmptyLabel, SeqLabel}}

EquAttr == \E st \in EquAttrStmts : Commit(st, process_EQU(Ctx, st))

\* LOCTR statements among named control sections, a private section and
\* symbols that are no location counters.
LoctrSectStmts == {Stmt(op, OrdLabel(n), <<>>) : op \in {"CSECT", "DSECT"}, n \in Ids}
                  \cup {Stmt("CSECT", EmptyLabel, <<>>)}

LoctrSect == \E st \in LoctrSectStmts : Commit(st, process_sect(Ctx, SectKind(st.op), st))

LoctrStmts == {Stmt("LOCTR", l, <<>>) : l \in NameLabels \cup {SeqLabel}}

LoctrStmt == \E st \in LoctrStmts : Commit(st, process_LOCTR(Ctx, st))

LoctrEqu == \E st \in SectEquStmts : Commit(st, process_EQU(Ctx, st))

\* END statements behind symbols with an absolute and with a relocatable
\* value; no statement is processed behind an END.
EndSymbolStmts == SectEquStmts \cup {Stmt("CSECT", OrdLabel(n), <<>>) : n \in Ids}

EndSymbol ==
    /\ ~end_reached
    /\ \E st \in EndSymbolStmts :
          Commit(st, IF st.op = "EQU" THEN process_EQU(Ctx, st)
                     ELSE process_sect(Ctx, SectKind(st.op), st))

EndOps == {<<>>, <<EmptyOp>>, <<NumOp(3)>>, <<ComplexOp>>, <<LoctrOp>>, <<NumOp(3), NumOp(3)>>}
          \cup {<<SymOp(n)>> : n \in Ids}

EndStmts == {Stmt("END", l, ops) : l \in NameLabels \cup {SeqLabel}, ops \in EndOps}

End ==
    /\ ~end_reached
    /\ \E st \in EndStmts : Commit(st, process_END(Ctx, st))

\* OPSYN statements: no operand, an empty one, a symbol, and operand fields
\* that are neither empty nor a symbol.
OpsynOps == {<<>>, <<EmptyOp>>, <<NumOp(5)>>, <<ComplexOp>>, <<StringOp(<<Run("a", 4)>>)>>}
            \cup {<<SymOp(n)>> : n \in Ids}
            \cup {<<SymOp(n), SymOp(n)>> : n \in Ids}

OpsynStmts == {Stmt("OPSYN", l, ops) : l \in NameLabels \cup {SeqLabel}, ops \in OpsynOps}

Opsyn == \E st \in OpsynStmts : Commit(st, process_OPSYN(Ctx, st))

\* USING and DROP statements over two registers, and PUSH and POP statements
\* with and without the operand USING.  At most MaxUsingStack states are
\* saved at a time.
MaxUsingStack == 2

Registers == {12, 13}

UsingStmts ==
    {Stmt("USING", l, ops) :
        l \in {EmptyLabel, OrdLabel(1)},
        ops \in {<<LoctrOp>>, <<ComplexOp, NumOp(12)>>, <<ModelOp, NumOp(12)>>,
                 <<LoctrOp, ComplexOp>>, <<LoctrOp, NumOp(12), NumOp(13)>>}
                \cup {<<LoctrOp, NumOp(r)>> : r \in Registers}}

Using == \E st \in UsingStmts : Commit(st, process_USING(Ctx, st))

UsingDropStmts ==
    {Stmt("DROP", EmptyLabel, ops) : ops \in {<<>>} \cup {<<NumOp(r)>> : r \in Registers}}

UsingDrop == \E st \in UsingDropStmts : Commit(st, process_DROP(Ctx, st))

PushPopOps ==
    {<<>>, <<TextOp(USING_text)>>, <<TextOp(Chars(<<"P", "R", "I", "N", "T">>))>>,
     <<TextOp(Chars(<<"P", "R", "I", "N", "T">>)), TextOp(USING_text)>>,
     <<StringOp(USING_text)>>, <<ComplexOp>>}

Push ==
    /\ Len(using_stack) < MaxUsingStack
    /\ \E ops \in PushPopOps :
          Commit(Stmt("PUSH", EmptyLabel, ops), process_PUSH(Ctx, Stmt("PUSH", EmptyLabel, ops)))

Pop == \E ops \in PushPopOps :
          Commit(Stmt("POP", EmptyLabel, ops), process_POP(Ctx, Stmt("POP", EmptyLabel, ops)))

\* EXTRN and WXTRN statements: plain symbols, PART(...) in both cases of
\* letters with names and empty strings, another complex operand, operands
\* that name nothing; among symbols defined by EQU.
ExternOps ==
    {<<>>, <<NumOp(5)>>, <<ModelOp>>}
    \cup {<<SymOp(n)>> : n \in Ids}
    \cup UNION {{<<SymOp(n), SymOp(k)>> : k \in 1..n} : n \in Ids}
    \cup {<<NestedOp(PART_text, <<n, EmptyId, 1>>)>> : n \in Ids}
    \cup {<<NestedOp(Chars(<<"p", "a", "r", "t">>), <<n>>), SymOp(1)>> : n \in Ids}
    \cup {<<NestedOp(Chars(<<"P", "A", "R">>), <<n>>), NumOp(5), SymOp(n)>> : n \in Ids}

ExternStmts ==
    {Stmt(op, l, ops) : op \in {"EXTRN", "WXTRN"},
                        l \in {EmptyLabel, SeqLabel, OrdLabel(1)},
                        ops \in ExternOps}

Extern == \E st \in ExternStmts :
              Commit(st, process_external(Ctx, st, IF st.op = "EXTRN" THEN "strong" ELSE "weak"))

ExternEqu == \E st \in SectEquStmts : Commit(st, process_EQU(Ctx, st))

\* AINSERT statements: records around the maximal length, empty and not
\* quoted; destinations FRONT, BACK, another symbol, and operands without a
\* symbol.  At most MaxAinsert records are queued.
MaxAinsert == 2

AinsertRecordOps ==
    {StringOp(<<Run("a", 4)>>), StringOp(<<Run("a", 80)>>), StringOp(<<Run("a", 81)>>),
     StringOp(<<>>), NamedSymOp(Chars(<<"O", "N", "E">>)), EmptyOp}

AinsertDestOps ==
    {NamedSymOp(FRONT_text), NamedSymOp(BACK_text), NamedSymOp(Chars(<<"W", "R", "O", "N", "G">>)),
     NumOp(5), LoctrOp, StringOp(FRONT_text), EmptyOp, ComplexOp}

AinsertStmts ==
    {Stmt("AINSERT", EmptyLabel, ops) :
        ops \in {<<>>, <<StringOp(<<Run("a", 4)>>)>>,
                 <<StringOp(<<Run("a", 4)>>), NamedSymOp(BACK_text), NamedSymOp(BACK_text)>>}
                \cup {<<r, d>> : r \in AinsertRecordOps, d \in AinsertDestOps}}

Ainsert ==
    /\ Len(ainsert_front) + Len(ainsert_back) < MaxAinsert
    /\ \E st \in AinsertStmts : Commit(st, process_AINSERT(Ctx, st))

\* TITLE statements with and without a name, among EQU statements.
TitleStmts == {Stmt("TITLE", l, ops) : l \in NameLabels \cup {SeqLabel},
                                       ops \in {<<>>, <<StringOp(<<Run("a", 4)>>)>>}}

Title == \E st \in TitleStmts : Commit(st, process_TITLE(Ctx, st))

TitleEqu == \E st \in SectEquStmts : Commit(st, process_EQU(Ctx, st))

\* COPY statements, in open code or in a member.
CopyOps == {<<>>, <<NumOp(1)>>, <<ComplexOp>>} \cup {<<SymOp(n)>> : n \in Ids}
           \cup {<<SymOp(n), SymOp(n)>> : n \in Ids}

CopyStmts == {Stmt("COPY", l, ops) : l \in {EmptyLabel, SeqLabel}, ops \in CopyOps}

Copy ==
    /\ pm_state(pending) = "Ordinary"
    /\ \E st \in CopyStmts : Commit(st, process_COPY(Ctx, st))

\* The completion of the request in flight: the library has the member, which
\* is cached from then on, or it has not; the callback of process_COPY runs.
FetchComplete ==
    /\ pm_state(pending) = "CopyFetch"
    /\ \E result \in BOOLEAN :
        LET c0 == [Ctx EXCEPT !.pending = NoRequest,
                              !.copy_members = IF result THEN @ \cup {pending.name} ELSE @]
        IN Step(stmt, common_copy_postprocess(c0, result, pending.name),
                IF result THEN "found" ELSE "missing")

\* hlasm_ctx.leave_copy_member: the end of the member entered last.
leave_copy_member(c) == [c EXCEPT !.copy_stack = SubSeq(@, 1, Len(@) - 1)]

CopyExit ==
    /\ pm_state(pending) = "Ordinary"
    /\ copy_stack # <<>>
    /\ Commit(NoStmt, leave_copy_member(Ctx))

\* MNOTE statements: the texts of the level operand, the messages around both
\* length limits, with and without characters that cannot be printed.
LevelTexts ==
    {Chars(cs) : cs \in {<<"0">>, <<"1">>, <<"2">>, <<"3">>, <<"4">>, <<"7">>, <<"8">>,
                         <<"2", "5", "5">>, <<"2", "5", "6">>, <<"-", "1">>, <<"-", "0">>,
                         <<"A">>, <<"1", "A">>, <<"+", "1">>, <<"0", "0", "0", "0", "7">>,
                         <<"4", "2", "9", "4", "9", "6", "7", "2", "9", "7">>}}

LevelOps == {EmptyOp, LoctrOp, ComplexOp, ModelOp} \cup {TextOp(t) : t \in LevelTexts}

Messages ==
    {<<>>, <<Run("a", 4)>>, <<Run("SOH", 2)>>, <<Run("a", 1020)>>, <<Run("a", 1021)>>,
     <<Run("a", 1019), Run("SOH", 2)>>}

MessageOps == {StringOp(t) : t \in Messages}
              \cup {TextOp(<<Run("a", 4)>>), TextOp(<<Run("a", 1021)>>), ComplexOp, EmptyOp}

MnoteStmts ==
    {Stmt("MNOTE", EmptyLabel, ops) :
        ops \in {<<>>} \cup {<<m>> : m \in MessageOps}
                \cup {<<l, m>> : l \in LevelOps, m \in MessageOps}
                \cup {<<l, l, m>> : l \in {EmptyOp, TextOp(Chars(<<"1">>))},
                                    m \in {StringOp(<<Run("a", 4)>>), StringOp(<<Run("a", 1021)>>)}}}

Mnote == \E st \in MnoteStmts : Commit(st, process_MNOTE(Ctx, st))

Init ==
    /\ symbols = [n \in Ids |-> NoSymbol]
    /\ sections = {}
    /\ curr_section = NoSection
    /\ loctrs = {}
    /\ curr_loctrs = {}
    /\ sym_deps = {}
    /\ stmt = NoStmt
    /\ diags = <<>>
    /\ postponed = 0
    /\ effects = <<>>
    /\ mnote_max = 0
    /\ end_reached = FALSE
    /\ opcodes = [n \in Ids |-> IF n \in BuiltinOpcodes THEN n ELSE EmptyId]
    /\ active_usings = {}
    /\ using_stack = <<>>
    /\ using_labels = {}
    /\ title_name = EmptyId
    /\ ainsert_front = <<>>
    /\ ainsert_back = <<>>
    /\ copy_members = {}
    /\ copy_stack = <<>>
    /\ pending = NoRequest
    /\ fetch_result = "none"
    /\ start_seen = FALSE
    /\ starts_accepted = 0
    /\ preprocessor_args = <<>>
    /\ preprocessor = NotCreated
    /\ pp_task = NoTask
    /\ pp_inner = NoInner
    /\ pp_input = <<>>
    /\ replacement = <<>>
    /\ pp_log = <<>>
    /\ stmt_count = 0
    /\ stmt_cache = {}
    /\ parse_log = <<>>
    /\ retrieval = NoRetrieval
    /\ retrievals = 0

\* Sections and START, among symbols that are no sections.
Next == Sect \/ Start \/ SectEqu

Spec == Init /\ [][Next]_vars

\* COPY statements, the completions of their requests, the ends of members.
NextCopy == Copy \/ FetchComplete \/ CopyExit

SpecCopy == Init /\ [][NextCopy]_vars

\* MNOTE statements.
NextMnote == Mnote

SpecMnote == Init /\ [][NextMnote]_vars

\* The statements that define their label.
NextSym == Equ \/ Data \/ Org \/ Ccw \/ Cnop \/ Ltorg \/ Cxd \/ Drop

SpecSym == Init /\ [][NextSym]_vars

\* LOCTR statements, sections and symbols.
NextLoctr == LoctrSect \/ LoctrStmt \/ LoctrEqu

SpecLoctr == Init /\ [][NextLoctr]_vars

\* The statements up to END.
NextEnd == EndSymbol \/ End

SpecEnd == Init /\ [][NextEnd]_vars

\* OPSYN statements.
NextOpsyn == Opsyn

SpecOpsyn == Init /\ [][NextOpsyn]_vars

\* USING, DROP, PUSH and POP statements.
NextUsing == Using \/ UsingDrop \/ Push \/ Pop

SpecUsing == Init /\ [][NextUsing]_vars

\* EXTRN and WXTRN statements and symbols.
NextExtern == Extern \/ ExternEqu

SpecExtern == Init /\ [][NextExtern]_vars

\* AINSERT statements.
NextAinsert == Ainsert

SpecAinsert == Init /\ [][NextAinsert]_vars

\* TITLE statements and symbols.
NextTitle == Title \/ TitleEqu

SpecTitle == Init /\ [][NextTitle]_vars

\* EQU statements with attribute operands.
NextEqu == EquAttr

SpecEqu == Init /\ [][NextEqu]_vars

\* Statements of every handler of the table and of an operation code without
\* a handler, with and without the diagnostics of the handler.  No statement
\* is processed behind an END or while a copy member is requested.
ProcessStmts ==
    {Stmt(op, l, <<>>) : op \in {"CSECT", "LOCTR", "CCW", "CNOP", "LTORG", "CXD", "ALIAS", "PRINT"},
                         l \in {EmptyLabel, OrdLabel(1)}}
    \cup {Stmt("EQU", l, ops) : l \in {EmptyLabel, OrdLabel(1)}, ops \in {<<NumOp(5)>>, <<SymOp(2)>>}}
    \cup {Stmt("DC", OrdLabel(1), <<DatOp(4, F_ebcdic, 4, NoLen)>>),
          Stmt("DS", OrdLabel(1), <<DatOp(1, C_ebcdic, 1, SymLen(1))>>),
          Stmt("DS", EmptyLabel, <<>>)}
    \cup {Stmt("COPY", EmptyLabel, ops) : ops \in {<<>>, <<NumOp(1)>>, <<SymOp(1)>>}}
    \cup {Stmt(op, EmptyLabel, ops) : op \in {"EXTRN", "WXTRN"}, ops \in {<<>>, <<SymOp(1)>>}}
    \cup {Stmt("ORG", EmptyLabel, ops) : ops \in {<<>>, <<LoctrOp>>, <<NumOp(5)>>}}
    \cup {Stmt("OPSYN", l, ops) : l \in {EmptyLabel, OrdLabel(1)}, ops \in {<<>>, <<SymOp(1)>>}}
    \cup {Stmt("AINSERT", EmptyLabel, ops) :
             ops \in {<<>>, <<StringOp(<<Run("a", 4)>>), NamedSymOp(BACK_text)>>,
                      <<StringOp(<<Run("a", 4)>>), NumOp(5)>>}}
    \cup {Stmt("START", OrdLabel(1), ops) : ops \in {<<>>, <<NumOp(13)>>, <<ComplexOp>>}}
    \cup {Stmt("END", EmptyLabel, ops) : ops \in {<<>>, <<NumOp(3)>>}}
    \cup {Stmt("USING", EmptyLabel, ops) : ops \in {<<LoctrOp>>, <<LoctrOp, NumOp(12)>>}}
    \cup {Stmt("DROP", EmptyLabel, ops) : ops \in {<<>>, <<NumOp(12)>>, <<ComplexOp>>}}
    \cup {Stmt(op, EmptyLabel, ops) : op \in {"PUSH", "POP"}, ops \in {<<>>, <<TextOp(USING_text)>>}}
    \cup {Stmt("MNOTE", EmptyLabel, ops) :
             ops \in {<<>>, <<StringOp(<<Run("a", 4)>>)>>,
                      <<TextOp(Chars(<<"8">>)), StringOp(<<Run("a", 4)>>)>>}}
    \cup {Stmt("TITLE", l, <<StringOp(<<Run("a", 4)>>)>>) : l \in {EmptyLabel, OrdLabel(1)}}

\* At most MaxStatements statements are processed.
MaxStatements == 2

Process ==
    /\ ~end_reached
    /\ pm_state(pending) = "Ordinary"
    /\ stmt_count < MaxStatements
    /\ \E st \in ProcessStmts, check \in {"valid", "underflow"} :
          /\ Assign(st, process(Ctx, st, check), "none")
          /\ stmt_count' = stmt_count + 1
          /\ UNCHANGED <<pp_vars, sp_vars>>

\* The completion of a request of a COPY statement among the statements.
ProcessFetchComplete == FetchComplete

NextProcess == Process \/ ProcessFetchComplete

SpecProcess == Init /\ [][NextProcess]_vars

\* DC and DS statements with up to MaxOperands operands: a fullword, a
\* character, a character with a length modifier that names symbol 1 (which
\* has no alignment), and operand lists with an empty operand; with the label
\* 1, which the length modifier refers to, with another label and without
\* one; among EQU statements that define the symbols.
MaxOperands == 3

DataOperands == {DatOp(4, F_ebcdic, 4, NoLen), DatOp(1, C_ebcdic, 1, NoLen),
                 DatOp(1, C_ebcdic, 1, SymLen(1))}

RECURSIVE OperandLists(_)
OperandLists(n) ==
    IF n = 0
    THEN {<<>>}
    ELSE OperandLists(n - 1)
         \cup {Append(a, op) : a \in {b \in OperandLists(n - 1) : Len(b) = n - 1},
                               op \in DataOperands}

DataChunkStmts ==
    {Stmt("DC", OrdLabel(1), ops) : ops \in OperandLists(2)}
    \cup {Stmt("DC", OrdLabel(2), <<DatOp(1, C_ebcdic, 1, SymLen(1))>>)}
    \cup {Stmt("DS", EmptyLabel, ops) :
             ops \in OperandLists(MaxOperands)
                     \cup {<<EmptyOp>>, <<DatOp(4, F_ebcdic, 4, NoLen), EmptyOp>>}}

DataChunk == \E st \in DataChunkStmts : Commit(st, process_data_instruction(Ctx, st, {}))

DataEqu == \E st \in {Stmt("EQU", OrdLabel(1), <<NumOp(5)>>)} : Commit(st, process_EQU(Ctx, st))

NextData == DataChunk \/ DataEqu

SpecData == Init /\ [][NextData]_vars

\* DC statements with a label and one operand: without modifiers, with a
\* length and with a scale modifier that name the label itself or another
\* symbol, with both, and with a scale that is a number; every answer of the
\* dependency tables; among EQU statements that define the symbols, one of
\* them with a value that is not known yet.
DataLabelOperands ==
    {DatOp(1, C_ebcdic, 1, NoLen),
     DatScaleOp(4, F_ebcdic, 4, NoLen, [term |-> "NUM", v |-> 3, name |-> EmptyId])}
    \cup {DatOp(1, C_ebcdic, 1, SymLen(n)) : n \in {1, 2}}
    \cup {DatScaleOp(4, F_ebcdic, 4, NoLen, SymLen(n)) : n \in {1, 2}}
    \cup {DatScaleOp(1, F_ebcdic, 4, SymLen(n), SymLen(k)) : n \in {1, 2}, k \in {1, 2}}

DataLabelStmts ==
    {Stmt("DC", OrdLabel(1), <<op>>) : op \in DataLabelOperands}
    \cup {Stmt("DS", l, <<DatScaleOp(1, F_ebcdic, 4, SymLen(1), SymLen(1)),
                         DatOp(1, C_ebcdic, 1, NoLen)>>) : l \in {EmptyLabel, OrdLabel(2)}}

DataLabel == \E st \in DataLabelStmts, cycles \in SUBSET {"L", "S"} :
                 Commit(st, process_data_instruction(Ctx, st, cycles))

DataLabelEqu == \E st \in SectEquStmts \cup {Stmt("EQU", OrdLabel(2), <<SymOp(1)>>)} :
                    Commit(st, process_EQU(Ctx, st))

NextDataLabel == DataLabel \/ DataLabelEqu

SpecDataLabel == Init /\ [][NextDataLabel]_vars

\* Retrievals of the statements of a member: by every kind of processor,
\* with every processing status and without one, with and without an
\* attribute lookahead that the instruction or the statement triggers.
GetNext ==
    /\ retrievals < MaxRetrievals
    /\ \E kind \in ProcessingKinds, i \in 0..Len(MemberStatements),
          proc_status_o \in ProcessingStatus \cup {NoStatus},
          instr_lookahead \in BOOLEAN, stmt_lookahead \in BOOLEAN :
          /\ kind # "ORDINARY" => ~instr_lookahead /\ ~stmt_lookahead
          /\ (i = 0 \/ MemberStatements[i].kind # "DEFERRED") => proc_status_o = NoStatus
          /\ LET p == get_next(Provider, kind, i, proc_status_o, instr_lookahead, stmt_lookahead)
             IN /\ stmt_cache' = p.cache
                /\ parse_log' = p.parse_log
                /\ retrieval' = [kind |-> kind, base |-> i, status |-> proc_status_o,
                                 reported |-> p.reported, reparsed |-> p.reparsed,
                                 go_back |-> p.go_back, stmt |-> p.stmt,
                                 returned |-> p.returned]
    /\ retrievals' = retrievals + 1
    /\ UNCHANGED <<asm_vars, pp_vars, stmt_count>>

NextProvider == GetNext

SpecProvider == Init /\ [][NextProvider]_vars

\* ORG statements: without operands, with two empty ones, with a target that
\* is *, a symbol, a number, an address behind an unresolved space or no
\* expression, with boundaries that are and are not powers of two, with
\* offsets, and with operands behind the first that are no expressions; among
\* statements that define the symbols as absolute and as addresses.
OrgOps ==
    {<<>>, <<EmptyOp, EmptyOp>>, <<LoctrOp>>, <<ComplexOp>>, <<NumOp(5)>>, <<UnresolvedAddrOp>>,
     <<EmptyOp, NumOp(8)>>, <<LoctrOp, ComplexOp>>, <<LoctrOp, NumOp(8)>>, <<LoctrOp, NumOp(3)>>,
     <<LoctrOp, NumOp(8), NumOp(0)>>, <<LoctrOp, NumOp(8), NumOp(4)>>, <<LoctrOp, NumOp(8), LoctrOp>>,
     <<LoctrOp, NumOp(8), ComplexOp>>}
    \cup UNION {{<<SymOp(n)>>, <<SymOp(n), ComplexOp>>, <<LoctrOp, SymOp(n)>>} : n \in Ids}

OrgTargetStmts == {Stmt("ORG", l, ops) : l \in {EmptyLabel, OrdLabel(1)}, ops \in OrgOps}

OrgTarget == \E st \in OrgTargetStmts, check \in {"valid", "underflow", "invalid_address"} :
                 Commit(st, process_ORG(Ctx, st, check))

OrgDefineStmts ==
    SectEquStmts \cup {Stmt("DS", OrdLabel(n), <<DatOp(4, F_ebcdic, 4, NoLen)>>) : n \in Ids}

OrgDefine == \E st \in OrgDefineStmts :
                 Commit(st, IF st.op = "EQU" THEN process_EQU(Ctx, st)
                            ELSE process_data_instruction(Ctx, st, {}))

NextOrg == OrgTarget \/ OrgDefine

SpecOrg == Init /\ [][NextOrg]_vars

\* USING statements that are accepted and that are refused with each of the
\* diagnostics, without a label and with labels that are new, registered or
\* defined as symbols; DROP statements without operands, with empty ones,
\* with registers and with operands that are no expressions.
UsingLabelStmts ==
    {Stmt("USING", l, ops) :
        l \in NameLabels,
        ops \in {<<LoctrOp>>, <<ModelOp, NumOp(12)>>, <<ComplexOp, NumOp(12)>>,
                 <<LoctrOp, ComplexOp>>, <<LoctrOp, NumOp(12), ModelOp>>,
                 <<LoctrOp, NumOp(12)>>, <<LoctrOp, NumOp(12), NumOp(13)>>}}

UsingLabel == \E st \in UsingLabelStmts : Commit(st, process_USING(Ctx, st))

DropOperandStmts ==
    {Stmt("DROP", EmptyLabel, ops) :
        ops \in {<<>>, <<EmptyOp, EmptyOp>>, <<EmptyOp>>, <<ComplexOp>>, <<ComplexOp, ModelOp>>,
                 <<EmptyOp, EmptyOp, EmptyOp>>, <<NumOp(12), ComplexOp>>, <<NumOp(12), NumOp(13)>>}
                \cup {<<NumOp(r)>> : r \in Registers}}

DropOperand == \E st \in DropOperandStmts : Commit(st, process_DROP(Ctx, st))

UsingLabelEqu == \E st \in SectEquStmts : Commit(st, process_EQU(Ctx, st))

NextUsingLabel == UsingLabel \/ DropOperand \/ UsingLabelEqu

SpecUsingLabel == Init /\ [][NextUsingLabel]_vars

\* START statements whose operand is a number: the multiples of the section
\* alignment and their neighbours around zero, and the ends of the range of
\* an int32_t; among DSECT statements, which leave START admissible.
IntMin == -2147483647 - 1

StartValues ==
    {IntMin, IntMin + 1, IntMin + 8, -17, -16, -9, -8, -7, -1, 0, 1, 7, 8, 9, 13, 16, 65529, 65536,
     2147483640, 2147483641, 2147483647}

StartValueStmts == {Stmt("START", l, <<NumOp(v)>>) : l \in NameLabels, v \in StartValues}

StartValue == \E st \in StartValueStmts : Commit(st, process_START(Ctx, st))

StartDsect == \E l \in NameLabels :
                  Commit(Stmt("DSECT", l, <<>>), process_sect(Ctx, "DUMMY", Stmt("DSECT", l, <<>>)))

NextStart == StartValue \/ StartDsect

SpecStart == Init /\ [][NextStart]_vars

SpecPreproc == Init /\ [][NextPreproc]_vars

\* ------------------------------------------------------------------ claims

LabelDefiningOps == {"EQU", "DC", "DS", "ORG", "CCW", "CNOP", "LTORG", "CXD", "DROP"}

CountExec == Cardinality({s \in sections : s.kind = "EXECUTABLE"})

\* C5: a START processed while an executable or read-only section exists adds
\* E073 and changes neither the sections nor the symbols; and no run accepts
\* more than one START.
C5_StartRejected ==
    /\ [][(/\ stmt'.op = "START"
           /\ \E s \in sections : s.kind \in {"EXECUTABLE", "READONLY"})
          => (/\ HasDiag(diags', "E073")
              /\ sections' = sections
              /\ curr_section' = curr_section
              /\ symbols' = symbols)]_vars
    /\ [](starts_accepted <= 1)

\* A START was refused with E073 after an accepted one.
C5_Witness ==
    /\ stmt.op = "START"
    /\ HasDiag(diags, "E073")
    /\ starts_accepted = 1

\* C6 as stated: there is at most one executable section if and only if a
\* START statement has been seen.
C6_AsStated == (CountExec <= 1) <=> start_seen

\* C6: a START is accepted only when no executable section exists, and
\* leaves exactly one; a START that has been seen does not bound the number of
\* executable sections.
C6_AcceptedStart ==
    [][START_accepted(stmt', [diags |-> diags'])
       => (/\ CountExec = 0
           /\ Cardinality({s \in sections' : s.kind = "EXECUTABLE"}) = 1)]_vars

\* Two executable sections exist after an accepted START.
C6_Witness == starts_accepted = 1 /\ start_seen /\ CountExec >= 2

\* The condition of C7 on the state before the statement.
C7_Refused(st) ==
    LET name == find_label_symbol(st)
        kind == SectKind(st.op)
    IN \/ /\ st.label.type = "ORD"
          /\ symbols[name] # NoSymbol
          /\ [name |-> name, kind |-> kind] \notin sections
       \/ /\ name = EmptyId
          /\ kind # "DUMMY"
          /\ \E s \in sections :
                /\ s.name = EmptyId
                /\ s.kind \in {"EXECUTABLE", "READONLY", "COMMON"}
                /\ s.kind # kind

\* C7: CSECT, DSECT, RSECT and COM add E031 and leave the sections and the
\* current section alone exactly when (a) the label names a defined symbol
\* that is no section of the kind or (b) there is no label, the kind is not
\* DUMMY and a private section of another kind among executable, read-only
\* and common exists; otherwise the section of the kind and name is entered,
\* created if need be, and no E031 is added.
C7_SectionRefusal ==
    [][stmt'.op \in {"CSECT", "DSECT", "RSECT", "COM"}
       => IF C7_Refused(stmt')
          THEN /\ HasDiag(diags', "E031")
               /\ sections' = sections
               /\ curr_section' = curr_section
          ELSE /\ ~HasDiag(diags', "E031")
               /\ [name |-> find_label_symbol(stmt'), kind |-> SectKind(stmt'.op)] \in sections'
               /\ curr_section' = [name |-> find_label_symbol(stmt'), kind |-> SectKind(stmt'.op)]
               /\ sections \subseteq sections']_vars

\* An unnamed section statement was refused because of a private section of
\* another kind.
C7_Witness ==
    /\ stmt.op \in {"CSECT", "RSECT", "COM"}
    /\ stmt.label.type = "EMPTY"
    /\ HasDiag(diags, "E031")

CopyName(st) == st.ops[1].name

SingleSymbol(st) ==
    Len(st.ops) = 1 /\ st.ops[1].type = "ASM" /\ st.ops[1].kind = "EXPR" /\ st.ops[1].term = "SYM"

Requested(es) == \E i \in DOMAIN es : es[i].fn = "request_external_processing"

\* C2: the names on the copy stack are pairwise distinct, and a COPY
\* statement that names a member on the copy stack adds E062 and leaves the
\* copy stack as it was.
C2_CopyStackDistinct ==
    /\ [](\A i, j \in DOMAIN copy_stack : copy_stack[i] = copy_stack[j] => i = j)
    /\ [][(/\ pm_state(pending) = "Ordinary"
           /\ stmt'.op = "COPY"
           /\ SingleSymbol(stmt')
           /\ OnStack(copy_stack, CopyName(stmt')))
          => (HasDiag(diags', "E062") /\ copy_stack' = copy_stack)]_vars

\* A COPY of a member on a copy stack of two members was refused.
C2_Witness ==
    /\ stmt.op = "COPY"
    /\ HasDiag(diags, "E062")
    /\ Len(copy_stack) = 2
    /\ OnStack(copy_stack, CopyName(stmt))

\* C3: a COPY statement asks for external processing exactly when its
\* operand is a single symbol that names no cached member; a cached member is
\* entered, or refused with E062, by the statement itself, without a request;
\* and while a request is in flight the copy stack grows only by the requested
\* member, in the step of a completion callback called with success.
C3_CopyRequest ==
    /\ [][(pm_state(pending) = "Ordinary" /\ stmt'.op = "COPY")
          => /\ Requested(effects')
                 <=> (SingleSymbol(stmt') /\ CopyName(stmt') \notin copy_members)
             /\ Requested(effects') <=> pending'.has
             /\ (SingleSymbol(stmt') /\ CopyName(stmt') \in copy_members)
                 => \/ copy_stack' = Append(copy_stack, CopyName(stmt'))
                    \/ HasDiag(diags', "E062") /\ copy_stack' = copy_stack
             /\ Requested(effects') => copy_stack' = copy_stack /\ pending'.name = CopyName(stmt')]_vars
    /\ [][(pending.has /\ copy_stack' # copy_stack)
          => (fetch_result' = "found" /\ copy_stack' = Append(copy_stack, pending.name))]_vars

\* A requested member was entered by the callback below an entered member.
C3_Witness ==
    /\ fetch_result = "found"
    /\ Len(copy_stack) = 2
    /\ copy_stack[2] = CopyName(stmt)
    /\ ~pending.has

\* C4: when the request of a COPY completes without the member, the callback
\* adds E058, enters nothing, leaves the copy stack and the cache as they were,
\* and the processing is in ordinary mode again.
C4_FetchMissing ==
    [][fetch_result' = "missing"
       => /\ pending.has
          /\ HasDiag(diags', "E058")
          /\ copy_stack' = copy_stack
          /\ copy_members' = copy_members
          /\ pm_state(pending') = "Ordinary"]_vars

\* A fetch failed while a member was entered.
C4_Witness ==
    /\ fetch_result = "missing"
    /\ HasDiag(diags, "E058")
    /\ Len(copy_stack) = 1
    /\ pm_state(pending) = "Ordinary"

\* The level operand as the claims read it: a digit string, with its value
\* (256 stands for every value above 255).
IsDigits(cs) == Len(cs) >= 1 /\ \A i \in DOMAIN cs : IsDigit(cs[i])

RECURSIVE DecimalValue(_, _, _)
DecimalValue(cs, i, acc) ==
    IF i > Len(cs) THEN acc
    ELSE LET v == acc * 10 + DigitValue(cs[i]) IN
         DecimalValue(cs, i + 1, IF v > 255 THEN 256 ELSE v)

IsDecimalLevel(op) ==
    /\ op.type = "ASM" /\ op.kind = "EXPR" /\ op.term # "LOCTR"
    /\ IsDigits(expand(op.text))
    /\ DecimalValue(expand(op.text), 1, 0) <= 255

\* The same with a minus sign before the digits allowed.
IsSignedDecimalLevel(op) ==
    /\ op.type = "ASM" /\ op.kind = "EXPR" /\ op.term # "LOCTR"
    /\ LET cs == expand(op.text)
           ds == IF Len(cs) >= 1 /\ cs[1] = "-" THEN Tail(cs) ELSE cs
       IN /\ IsDigits(ds)
          /\ IF ds = cs THEN DecimalValue(ds, 1, 0) <= 255 ELSE DecimalValue(ds, 1, 0) = 0

\* The level of C8: 0 for a single operand or a first operand *, 1 for an
\* empty first operand, the number otherwise; -1 if there is none.
ClaimLevel(st) ==
    IF Len(st.ops) = 1 THEN 0
    ELSE IF Len(st.ops) # 2 THEN -1
    ELSE IF st.ops[1].type = "ASM" /\ st.ops[1].kind = "EXPR" /\ st.ops[1].term = "LOCTR" THEN 0
    ELSE IF st.ops[1].type = "EMPTY" THEN 1
    ELSE IF IsDecimalLevel(st.ops[1]) THEN DecimalValue(expand(st.ops[1].text), 1, 0)
    ELSE -1

ClaimSeverity(level) ==
    CASE level <= 1 -> "hint"
      [] level \in 2..3 -> "info"
      [] level \in 4..7 -> "warning"
      [] OTHER -> "error"

LastOp(st) == st.ops[Len(st.ops)]

\* A quoted message within both length limits.
QuotedWithinLimits(st) ==
    /\ LastOp(st).type = "ASM" /\ LastOp(st).kind = "STRING"
    /\ size(LastOp(st).text) <= MNOTE_max_message_length
    /\ size(LastOp(st).text) + (IF Len(st.ops) = 2 THEN size(st.ops[1].text) ELSE 0)
           <= MNOTE_max_operands_length

\* C8 as stated: an MNOTE with a valid level and a quoted message within the
\* limits adds one diagnostic, MNOTE, of the severity of the level, whose
\* message is the text of the message operand.
C8_AsStated ==
    (stmt.op = "MNOTE" /\ ClaimLevel(stmt) \in 0..255 /\ QuotedWithinLimits(stmt))
    => diags = <<[code |-> "MNOTE", severity |-> ClaimSeverity(ClaimLevel(stmt)),
                  message |-> LastOp(stmt).text]>>

\* C8: an MNOTE with a valid level and a quoted message within the limits
\* adds one diagnostic, MNOTE, of the severity of the level (hint up to 1,
\* info for 2 and 3, warning for 4 to 7, error from 8), whose message is the
\* text of the message operand with every character that cannot be printed
\* replaced by its code in angle brackets.
C8_MnoteDiagnostic ==
    (stmt.op = "MNOTE" /\ ClaimLevel(stmt) \in 0..255 /\ QuotedWithinLimits(stmt))
    => diags = <<[code |-> "MNOTE", severity |-> ClaimSeverity(ClaimLevel(stmt)),
                  message |-> append_utf8_sanitized(<<>>, LastOp(stmt).text)]>>

\* MNOTE 255,'..' with two characters that cannot be printed was reported as
\* an error with the message <01><01>.
C8_Witness ==
    /\ stmt.op = "MNOTE"
    /\ Len(stmt.ops) = 2
    /\ stmt.ops[1].text = Chars(<<"2", "5", "5">>)
    /\ stmt.ops[2] = StringOp(<<Run("SOH", 2)>>)
    /\ diags = <<[code |-> "MNOTE", severity |-> "error",
                  message |-> Chars(<<"<", "0", "1", ">", "<", "0", "1", ">">>)]>>

HasMnote(ds) == HasDiag(ds, "MNOTE")

\* C9 as stated: an MNOTE whose first of two operands is no decimal number in
\* 0..255 adds A119, no MNOTE diagnostic, and leaves the recorded maximum
\* alone; an MNOTE with no or more than two operands adds A012 only.
C9_AsStated ==
    [][stmt'.op = "MNOTE"
       => /\ (Len(stmt'.ops) = 2 /\ ~IsDecimalLevel(stmt'.ops[1]))
              => (HasDiag(diags', "A119") /\ ~HasMnote(diags') /\ mnote_max' = mnote_max)
          /\ (Len(stmt'.ops) = 0 \/ Len(stmt'.ops) > 2)
              => diags' = <<Diag("error", "A012")>>]_vars

\* C9: an MNOTE whose first of two operands is neither empty nor * nor a
\* digit string, with or without a minus sign, of a value in 0..255 adds A119
\* and nothing else and leaves the recorded maximum alone; an MNOTE with no
\* or more than two operands adds A012 and nothing else, and leaves it alone.
C9_LevelRefused ==
    [][stmt'.op = "MNOTE"
       => /\ (/\ Len(stmt'.ops) = 2
              /\ stmt'.ops[1].type # "EMPTY"
              /\ stmt'.ops[1] # LoctrOp
              /\ ~IsSignedDecimalLevel(stmt'.ops[1]))
              => (diags' = <<Diag("error", "A119")>> /\ mnote_max' = mnote_max)
          /\ (Len(stmt'.ops) = 0 \/ Len(stmt'.ops) > 2)
              => (diags' = <<Diag("error", "A012")>> /\ mnote_max' = mnote_max)]_vars

\* A level of ten digits that does not fit an int was refused after a level
\* had been recorded.
C9_Witness ==
    /\ stmt.op = "MNOTE"
    /\ Len(stmt.ops) = 2
    /\ Len(stmt.ops[1].text) = 10
    /\ diags = <<Diag("error", "A119")>>
    /\ mnote_max = 255

\* The message operand is longer than the maximum message length.
MessageTooLong(st) ==
    /\ Len(st.ops) >= 1
    /\ LastOp(st).type = "ASM"
    /\ size(LastOp(st).text) > MNOTE_max_message_length

FirstMnote(ds) == ds[CHOOSE i \in DOMAIN ds : ds[i].code = "MNOTE"]

\* C10 as stated: an MNOTE with a message longer than the maximum adds A117
\* and the MNOTE diagnostic with the message cut to the maximum length; no
\* statement gets both A117 and A118.
C10_AsStated ==
    /\ (stmt.op = "MNOTE" /\ MessageTooLong(stmt))
        => /\ HasDiag(diags, "A117")
           /\ HasMnote(diags)
           /\ FirstMnote(diags).message = substr(LastOp(stmt).text, MNOTE_max_message_length)
    /\ ~(HasDiag(diags, "A117") /\ HasDiag(diags, "A118"))

\* The level operand is one that process_MNOTE takes: C8's, or C9's.
LevelTaken(st) ==
    \/ Len(st.ops) = 1
    \/ /\ Len(st.ops) = 2
       /\ \/ st.ops[1].type = "EMPTY"
          \/ st.ops[1] = LoctrOp
          \/ IsSignedDecimalLevel(st.ops[1])

\* C10: an MNOTE with one or two operands, a level that is taken and a message
\* longer than the maximum adds A117, not A118, and last the MNOTE diagnostic,
\* whose message is the first 1020 characters of the text with every character
\* that cannot be printed replaced by its code in angle brackets; no statement
\* gets both A117 and A118.
C10_LongMessage ==
    /\ (stmt.op = "MNOTE" /\ MessageTooLong(stmt) /\ LevelTaken(stmt))
        => /\ HasDiag(diags, "A117")
           /\ diags[Len(diags)].code = "MNOTE"
           /\ diags[Len(diags)].message
                = append_utf8_sanitized(<<>>, substr(LastOp(stmt).text, MNOTE_max_message_length))
           /\ Cardinality({i \in DOMAIN diags : diags[i].code = "MNOTE"}) = 1
    /\ ~(HasDiag(diags, "A117") /\ HasDiag(diags, "A118"))

\* A message of 1021 characters was cut before its last character, and the
\* character that cannot be printed at its end was replaced.
C10_Witness ==
    /\ stmt.op = "MNOTE"
    /\ Len(stmt.ops) = 1
    /\ LastOp(stmt) = StringOp(<<Run("a", 1019), Run("SOH", 2)>>)
    /\ Len(diags) = 2
    /\ diags[1].code = "A117"
    /\ diags[2].code = "MNOTE"
    /\ diags[2].message = <<Run("a", 1019)>> \o Chars(<<"<", "0", "1", ">">>)

\* An EQU that gets to define its label: a fresh ordinary label, 1 to 5
\* operands, an expression as value operand.
EquDefines(c, st) ==
    /\ st.op = "EQU"
    /\ st.label.type = "ORD"
    /\ c.symbols[st.label.name] = NoSymbol
    /\ Len(st.ops) \in 1..5
    /\ st.ops[1].type = "ASM" /\ st.ops[1].kind = "EXPR"

\* The expression names no symbol without a value.
NamesNoPendingSymbol(c, op) ==
    op.term = "SYM" => (c.symbols[op.name] # NoSymbol /\ c.symbols[op.name].kind # "UNDEF")

\* A fully resolved expression: no symbol without a value, no open address.
FullyResolved(c, op) == NamesNoPendingSymbol(c, op) /\ op.term # "ADDR"

\* The value of a resolved expression.
FinalValue(c, op) ==
    IF op.term = "NUM" THEN AbsValue(op.v)
    ELSE IF op.term = "SYM" THEN [kind |-> c.symbols[op.name].kind, val |-> c.symbols[op.name].val]
    ELSE RelocValue

\* The statement defined its label with a placeholder, and either posted one
\* dependency for it or found a cycle and added E033.
PlaceholderPosted(name) ==
    /\ symbols'[name].kind = "UNDEF"
    /\ \/ /\ \E d \in sym_deps' : d.target = name /\ sym_deps' = sym_deps \cup {d}
          /\ Cardinality(sym_deps') = Cardinality(sym_deps) + 1
          /\ ~HasDiag(diags', "E033")
       \/ /\ sym_deps' = sym_deps
          /\ HasDiag(diags', "E033")

\* The statement defined its label with the value, and posted nothing.
DefinedWith(name, value) ==
    /\ symbols'[name].kind = value.kind
    /\ symbols'[name].val = value.val
    /\ sym_deps' = sym_deps
    /\ ~HasDiag(diags', "E033")

\* C11 as stated: a defining EQU defines its label with the final value when
\* the value expression is fully resolved and with a placeholder and one
\* posted dependency (or E033) in every other case.
C11_AsStated ==
    [][EquDefines(Ctx, stmt')
       => LET name == stmt'.label.name IN
          IF FullyResolved(Ctx, stmt'.ops[1])
          THEN DefinedWith(name, FinalValue(Ctx, stmt'.ops[1]))
          ELSE PlaceholderPosted(name)]_vars

\* C11: an EQU with a fresh ordinary label, 1 to 5 operands and an expression
\* as value operand defines its label, and only its label: with the final
\* value when the expression is fully resolved; with the address, and no
\* dependency, when the expression is an address whose only open part is a
\* space of its location counter; with a placeholder and exactly one posted
\* dependency, or E033 when posting finds a cycle, when it names a symbol
\* without a value.  Every other EQU defines no symbol and posts nothing.
C11_EquDefines ==
    [][stmt'.op = "EQU"
       => IF EquDefines(Ctx, stmt')
          THEN LET name == stmt'.label.name
                   value == stmt'.ops[1]
               IN /\ \A n \in Ids \ {name} : symbols'[n] = symbols[n]
                  /\ symbols'[name].origin = "EQU"
                  /\ IF FullyResolved(Ctx, value)
                     THEN DefinedWith(name, FinalValue(Ctx, value))
                     ELSE IF NamesNoPendingSymbol(Ctx, value)
                     THEN DefinedWith(name, RelocValue)
                     ELSE PlaceholderPosted(name)
          ELSE symbols' = symbols /\ sym_deps' = sym_deps]_vars

\* An EQU of an address with an open space defined its label at once, while
\* another symbol still waits for its value.
C11_Witness ==
    /\ stmt.op = "EQU"
    /\ stmt.label.type = "ORD"
    /\ Len(stmt.ops) = 1
    /\ stmt.ops[1].term = "ADDR"
    /\ diags = <<>>
    /\ symbols[stmt.label.name].kind = "RELOC"
    /\ symbols[stmt.label.name].origin = "EQU"
    /\ \E d \in sym_deps : d.target # stmt.label.name

\* A valid attribute operand: an expression that evaluates, at the statement,
\* to an absolute value from 0 to max.
ValidAttrOperand(c, op, max) ==
    /\ op.type = "ASM" /\ op.kind = "EXPR"
    /\ FullyResolved(c, op)
    /\ FinalValue(c, op).kind = "ABS"
    /\ FinalValue(c, op).val \in 0..max

\* The EQU has an operand at position i that is an assembler operand.
SuppliesOperand(st, i) == Len(st.ops) >= i /\ st.ops[i].type = "ASM"

\* C12 as stated, the default: without a valid length operand the new symbol
\* has the length attribute of the leftmost term when that is a defined
\* symbol, and 1 otherwise.
C12_AsStated ==
    [][(/\ EquDefines(Ctx, stmt')
        /\ ~(SuppliesOperand(stmt', 2) /\ ValidAttrOperand(Ctx, stmt'.ops[2], 65535)))
       => LET l_term == stmt'.ops[1] IN
          symbols'[stmt'.label.name].length =
              IF l_term.term = "SYM" /\ symbols[l_term.name] # NoSymbol
              THEN symbols[l_term.name].length
              ELSE 1]_vars

\* C12: without a valid length operand the new symbol of an EQU has the
\* length attribute of the leftmost term of the value when that term is a
\* defined symbol whose value is not undefined, and 1 in every other case (a
\* defined symbol still waiting for its value included).  A supplied length
\* operand is taken if it evaluates to an absolute value in 0..65535 and gets
\* A133 otherwise; a supplied type operand is taken if it evaluates to an
\* absolute value in 0..255 and gets A134 otherwise.
C12_EquAttributes ==
    [][(/\ stmt'.op = "EQU"
        /\ stmt'.label.type = "ORD"
        /\ symbols[stmt'.label.name] = NoSymbol
        /\ Len(stmt'.ops) \in 1..5)
       => LET st == stmt'
              valid_length == SuppliesOperand(st, 2) /\ ValidAttrOperand(Ctx, st.ops[2], 65535)
              valid_type == SuppliesOperand(st, 3) /\ ValidAttrOperand(Ctx, st.ops[3], 255)
              l_term == st.ops[1]
          IN /\ HasDiag(diags', "A133") <=> (SuppliesOperand(st, 2) /\ ~valid_length)
             /\ HasDiag(diags', "A134") <=> (SuppliesOperand(st, 3) /\ ~valid_type)
             /\ EquDefines(Ctx, st) =>
                  /\ symbols'[st.label.name].length =
                        IF valid_length THEN FinalValue(Ctx, st.ops[2]).val
                        ELSE IF /\ l_term.term = "SYM"
                                /\ symbols[l_term.name] # NoSymbol
                                /\ symbols[l_term.name].kind # "UNDEF"
                        THEN symbols[l_term.name].length
                        ELSE 1
                  /\ symbols'[st.label.name].type =
                        IF valid_type THEN FinalValue(Ctx, st.ops[3]).val ELSE undef_type]_vars

\* An EQU without length operand whose value names a symbol that is defined
\* with a length attribute of 7 and waits for its value: the new symbol has
\* the length attribute 1.
C12_Witness ==
    /\ stmt.op = "EQU"
    /\ stmt.label.type = "ORD"
    /\ Len(stmt.ops) = 1
    /\ stmt.ops[1].term = "SYM"
    /\ stmt.ops[1].name # stmt.label.name
    /\ symbols[stmt.ops[1].name].kind = "UNDEF"
    /\ symbols[stmt.ops[1].name].length = 7
    /\ symbols[stmt.label.name].origin = "EQU"
    /\ symbols[stmt.label.name].length = 1

\* The location counter that is active: the current one of the current section.
ActiveLoctr(sect, currs) == {l \in currs : l.sect = sect}

\* C13 as stated: a LOCTR statement that adds a diagnostic creates no
\* location counter and leaves the active one as it is; a LOCTR statement
\* without diagnostic makes the counter of its label the active one.
C13_AsStated ==
    [][stmt'.op = "LOCTR"
       => IF diags' # <<>>
          THEN /\ loctrs' = loctrs
               /\ ActiveLoctr(curr_section', curr_loctrs') = ActiveLoctr(curr_section, curr_loctrs)
          ELSE \E l \in ActiveLoctr(curr_section', curr_loctrs') :
                   l.name = find_label_symbol(stmt')]_vars

\* C13, what process_LOCTR does: a LOCTR whose label names a defined symbol
\* that is no location counter adds E031, creates no counter and leaves the
\* active one; every other LOCTR, the one without a label that adds E053
\* included, makes the counter of the name of its label field the active one.
C13_Loctr ==
    [][stmt'.op = "LOCTR"
       => LET name == find_label_symbol(stmt') IN
          /\ HasDiag(diags', "E053") <=> name = EmptyId
          /\ HasDiag(diags', "E031") <=> (symbol_defined(Ctx, name) /\ ~counter_defined(Ctx, name))
          /\ IF HasDiag(diags', "E031")
             THEN /\ loctrs' = loctrs
                  /\ ActiveLoctr(curr_section', curr_loctrs') = ActiveLoctr(curr_section, curr_loctrs)
             ELSE \E l \in ActiveLoctr(curr_section', curr_loctrs') : l.name = name]_vars

\* A LOCTR without a label, behind a named section and a counter of it, added
\* E053 and made a counter without a name the active one.
C13_Witness ==
    /\ stmt.op = "LOCTR"
    /\ stmt.label.type = "EMPTY"
    /\ HasDiag(diags, "E053")
    /\ curr_section.name # EmptyId
    /\ Loctr(curr_section, EmptyId) \in curr_loctrs
    /\ Cardinality({l \in loctrs : l.sect = curr_section}) = 3

\* The calls of end_reached among the calls of a statement.
EndReachedCalls(es) == {i \in DOMAIN es : es[i].fn = "end_reached"}

\* C14: processing an END statement marks the context as end-reached, by
\* exactly one call that follows the recording of its one postponed
\* statement, whatever it diagnoses: A249 for a label that is neither empty
\* nor a sequence symbol, E032 for an expression operand with an absolute
\* value.
C14_EndTerminates ==
    [][stmt'.op = "END"
       => /\ end_reached'
          /\ Cardinality(EndReachedCalls(effects')) = 1
          /\ postponed' = 1
          /\ \A i \in EndReachedCalls(effects') : effects'[i].arg = <<1>>
          /\ HasDiag(diags', "A249") <=> stmt'.label.type = "ORD"
          /\ HasDiag(diags', "E032") <=>
                (/\ stmt'.ops # <<>>
                 /\ stmt'.ops[1].kind = "EXPR"
                 /\ \/ stmt'.ops[1].term = "NUM"
                    \/ /\ stmt'.ops[1].term = "SYM"
                       /\ symbols[stmt'.ops[1].name].kind = "ABS")]_vars

\* An END with an ordinary label and a symbol with an absolute value as
\* operand added both diagnostics and marked the end.
C14_Witness ==
    /\ stmt.op = "END"
    /\ stmt.ops # <<>>
    /\ stmt.ops[1].term = "SYM"
    /\ HasDiag(diags, "A249")
    /\ HasDiag(diags, "E032")
    /\ end_reached

\* The operand field of the statement is empty: no operand, or an empty one.
OperandFieldEmpty(st) == st.ops = <<>> \/ st.ops = <<EmptyOp>>

\* The operand field is one symbol that stands for an operation code.
NamesOperationCode(st) ==
    /\ Len(st.ops) = 1
    /\ st.ops[1].term = "SYM"
    /\ opcodes[st.ops[1].name] # EmptyId

\* The statement removed the mnemonic of its label, or added E049 and changed
\* nothing when the label stands for no operation code.
RemovedOrE049(st) ==
    IF opcodes[st.label.name] # EmptyId
    THEN opcodes' = [opcodes EXCEPT ![st.label.name] = EmptyId] /\ ~HasDiag(diags', "E049")
    ELSE opcodes' = opcodes /\ HasDiag(diags', "E049")

\* C15 as stated: OPSYN removes the mnemonic of its label only when the
\* operand field is empty; with an operand field that is not empty it makes
\* the label stand for the operand's operation code if there is one and
\* changes no mnemonic otherwise; without a label it changes no mnemonic.
C15_AsStated ==
    [][stmt'.op = "OPSYN"
       => IF stmt'.label.type # "ORD" THEN opcodes' = opcodes
          ELSE IF OperandFieldEmpty(stmt') THEN RemovedOrE049(stmt')
          ELSE IF NamesOperationCode(stmt')
          THEN opcodes' = [opcodes EXCEPT ![stmt'.label.name] = opcodes[stmt'.ops[1].name]]
          ELSE opcodes' = opcodes]_vars

\* C15, what process_OPSYN does: with a label, every operand field that is
\* not exactly one symbol (an empty one, a number, a string, two operands)
\* removes the mnemonic of the label, or adds E049 when the label stands for
\* no operation code; one symbol makes the label stand for the symbol's
\* operation code, or adds A246 and changes nothing when there is none.
\* Without a label no mnemonic changes.
C15_Opsyn ==
    [][stmt'.op = "OPSYN"
       => IF stmt'.label.type # "ORD" THEN opcodes' = opcodes
          ELSE IF ~(Len(stmt'.ops) = 1 /\ stmt'.ops[1].term = "SYM") THEN RemovedOrE049(stmt')
          ELSE IF NamesOperationCode(stmt')
          THEN opcodes' = [opcodes EXCEPT ![stmt'.label.name] = opcodes[stmt'.ops[1].name]]
          ELSE opcodes' = opcodes /\ HasDiag(diags', "A246")]_vars

\* An OPSYN with a number as operand removed the mnemonic of its label, an
\* operation code of the instruction set.
C15_Witness ==
    /\ stmt.op = "OPSYN"
    /\ stmt.label.type = "ORD"
    /\ stmt.ops = <<NumOp(5)>>
    /\ diags = <<>>
    /\ stmt.label.name \in BuiltinOpcodes
    /\ opcodes[stmt.label.name] = EmptyId

\* The statement has the operand USING.
HasUsingOperand(st) ==
    \E i \in DOMAIN st.ops : st.ops[i].kind = "EXPR" /\ st.ops[i].text = USING_text

\* C16: of the PUSH and POP statements only those with the operand USING
\* touch the saved USING states or the USING state; a PUSH USING saves the
\* USING state on top of the saved ones; a POP USING makes the state saved
\* last the USING state and removes it from the saved ones; a POP USING adds
\* A165 exactly when no state is saved, and then leaves the USING state as it is.
C16_PushPopUsing ==
    [][stmt'.op \in {"PUSH", "POP"}
       => IF ~HasUsingOperand(stmt')
          THEN using_stack' = using_stack /\ active_usings' = active_usings /\ diags' = <<>>
          ELSE IF stmt'.op = "PUSH"
          THEN /\ using_stack' = Append(using_stack, active_usings)
               /\ active_usings' = active_usings
               /\ diags' = <<>>
          ELSE IF using_stack = <<>>
          THEN /\ HasDiag(diags', "A165")
               /\ active_usings' = active_usings
               /\ using_stack' = <<>>
          ELSE /\ diags' = <<>>
               /\ active_usings' = using_stack[Len(using_stack)]
               /\ using_stack = Append(using_stack', active_usings')]_vars

\* A POP USING brought back a USING state that differs from the one another
\* saved state holds, and from the empty one.
C16_Witness ==
    /\ stmt.op = "POP"
    /\ HasUsingOperand(stmt)
    /\ diags = <<>>
    /\ Len(using_stack) = 1
    /\ active_usings # {}
    /\ active_usings # using_stack[1]

\* The names a statement's operands give, in operand order: a plain symbol,
\* or the names inside PART(...) that are not empty.
NamesOfOperand(op) ==
    IF op.kind = "EXPR" /\ op.term = "SYM" THEN <<op.name>>
    ELSE IF op.kind = "COMPLEX" /\ op.text \in {PART_text, Chars(<<"p", "a", "r", "t">>)}
    THEN SelectSeq(op.values, LAMBDA n : n # EmptyId)
    ELSE <<>>

RECURSIVE NamesOfOperands(_, _)
NamesOfOperands(ops, i) ==
    IF i > Len(ops) THEN <<>> ELSE NamesOfOperand(ops[i]) \o NamesOfOperands(ops, i + 1)

\* How many diagnostics of the code the statement added.
CountDiag(ds, code) == Cardinality({i \in DOMAIN ds : ds[i].code = code})

\* C17: EXTRN and WXTRN take every named operand (a plain symbol, a name that
\* is not empty inside PART(...)) by itself and in operand order: a name that
\* is a defined symbol, by an earlier operand of the statement too, gets E031
\* and is not declared again; every other name becomes an external (EXTRN) or
\* weak external (WXTRN) section; no diagnostic keeps the operands behind it
\* from being taken.
C17_Externals ==
    [][stmt'.op \in {"EXTRN", "WXTRN"}
       => LET names == NamesOfOperands(stmt'.ops, 1)
              fresh == {names[i] : i \in {j \in DOMAIN names : symbols[names[j]] = NoSymbol}}
              s_kind == IF stmt'.op = "EXTRN" THEN "EXTERNAL" ELSE "WEAK_EXTERNAL"
          IN /\ sections' = sections \cup {[name |-> n, kind |-> s_kind] : n \in fresh}
             /\ \A n \in Ids : symbols'[n] = IF n \in fresh THEN SectionSymbol ELSE symbols[n]
             /\ CountDiag(diags', "E031") = Len(names) - Cardinality(fresh)
             /\ postponed' = 1]_vars

\* A WXTRN with an ordinary label and the same name twice declared the name
\* as a weak external section for its first operand and refused the second.
C17_Witness ==
    /\ stmt.op = "WXTRN"
    /\ stmt.label.type = "ORD"
    /\ Len(stmt.ops) = 2
    /\ stmt.ops[1] = stmt.ops[2]
    /\ stmt.ops[1].term = "SYM"
    /\ [name |-> stmt.ops[1].name, kind |-> "WEAK_EXTERNAL"] \in sections
    /\ CountDiag(diags, "E031") = 1
    /\ HasDiag(diags, "A249")

\* The statement is a well-formed AINSERT: two operands, the second the
\* symbol FRONT or BACK, the first a quoted string of 1 to 80 characters.
WellFormedAinsert(st) ==
    /\ Len(st.ops) = 2
    /\ st.ops[2].term = "SYM"
    /\ st.ops[2].text \in {FRONT_text, BACK_text}
    /\ st.ops[1].kind = "STRING"
    /\ size(st.ops[1].text) \in 1..string_max_length

\* The step put exactly one record, the first operand, into the queue the
\* second operand names.
PushedOne(st) ==
    IF st.ops[2].text = FRONT_text
    THEN ainsert_front' = Append(ainsert_front, st.ops[1].text) /\ ainsert_back' = ainsert_back
    ELSE ainsert_back' = Append(ainsert_back, st.ops[1].text) /\ ainsert_front' = ainsert_front

PushedNothing == ainsert_front' = ainsert_front /\ ainsert_back' = ainsert_back

\* C18 as stated: AINSERT puts exactly one record into the front or the back
\* queue if and only if it is well formed, and every AINSERT that puts
\* nothing adds at least one diagnostic.
C18_AsStated ==
    [][stmt'.op = "AINSERT"
       => IF WellFormedAinsert(stmt')
          THEN PushedOne(stmt')
          ELSE PushedNothing /\ diags' # <<>>]_vars

\* C18, what process_AINSERT does: it puts exactly one record into the front
\* or the back queue if and only if the statement is well formed; of the
\* statements that put nothing, the one with two operands whose second is an
\* expression without a symbol (a number, the location counter) adds no
\* diagnostic, and every other one adds exactly one.
C18_Ainsert ==
    [][stmt'.op = "AINSERT"
       => IF WellFormedAinsert(stmt')
          THEN PushedOne(stmt') /\ diags' = <<>>
          ELSE /\ PushedNothing
               /\ IF /\ Len(stmt'.ops) = 2
                     /\ stmt'.ops[2].kind = "EXPR"
                     /\ stmt'.ops[2].term # "SYM"
                  THEN diags' = <<>>
                  ELSE Len(diags') = 1]_vars

\* An AINSERT with a record and the number 5 as destination, behind an
\* AINSERT that queued a record: nothing more is queued, nothing diagnosed.
C18_Witness ==
    /\ stmt.op = "AINSERT"
    /\ Len(stmt.ops) = 2
    /\ stmt.ops[1] = StringOp(<<Run("a", 4)>>)
    /\ stmt.ops[2] = NumOp(5)
    /\ diags = <<>>
    /\ Len(ainsert_front) + Len(ainsert_back) = 1

\* C19: the title name is written once: the first TITLE statement with a
\* name in its label field sets it; every later TITLE with a name adds W016
\* and leaves it; a TITLE without a name (an empty label field, a sequence
\* symbol) never adds W016 and never changes it; nothing else changes it.
C19_TitleWriteOnce ==
    [][/\ title_name # EmptyId => title_name' = title_name
       /\ stmt'.op # "TITLE" => title_name' = title_name
       /\ stmt'.op = "TITLE" =>
            IF stmt'.label.type = "ORD"
            THEN IF title_name = EmptyId
                 THEN title_name' = stmt'.label.name /\ ~HasDiag(diags', "W016")
                 ELSE title_name' = title_name /\ HasDiag(diags', "W016")
            ELSE title_name' = title_name /\ ~HasDiag(diags', "W016")]_vars

\* A TITLE with another name than the title name was refused with W016.
C19_Witness ==
    /\ stmt.op = "TITLE"
    /\ stmt.label.type = "ORD"
    /\ title_name # EmptyId
    /\ title_name # stmt.label.name
    /\ HasDiag(diags, "W016")

\* C20.  With two or more configured preprocessors, generate_replacement runs
\* them strictly one after another in the order of the configuration: the
\* first is started on the document of the call, each next one is started
\* only after the one before it has completed, suspensions included, and on
\* exactly the document that one produced, and the result is the output of
\* the last.  With no configured preprocessor no preprocessor object is
\* created, and with one the single preprocessor is used directly.
InOrder(log, args, input) ==
    \A k \in 1..Len(log) :
        LET i == (k + 1) \div 2 IN
        /\ i <= Len(args)
        /\ log[k].i = i
        /\ log[k].p = args[i]
        /\ IF k % 2 = 1
           THEN /\ log[k].ev = "start"
                /\ log[k].doc = IF k = 1 THEN input ELSE log[k - 1].doc
           ELSE log[k].ev = "complete"

C20_PreprocessorChain ==
    preprocessor # NotCreated =>
        /\ Len(preprocessor_args) = 0 =>
              /\ preprocessor = [kind |-> "null", pp |-> <<>>]
              /\ pp_log = <<>>
              /\ replacement = <<>>
        /\ Len(preprocessor_args) = 1 =>
              /\ preprocessor = [kind |-> "single", pp |-> preprocessor_args]
              /\ pp_task = NoTask
              /\ InOrder(pp_log, preprocessor_args, pp_input)
              /\ replacement # <<>> => Len(pp_log) = 2 /\ replacement = <<pp_log[2].doc>>
        /\ Len(preprocessor_args) >= 2 =>
              /\ preprocessor.kind = "combined"
              /\ InOrder(pp_log, preprocessor_args, pp_input)
              /\ pp_inner # NoInner =>
                    /\ Len(pp_log) % 2 = 1
                    /\ pp_inner.i = (Len(pp_log) + 1) \div 2
              /\ pp_inner = NoInner => Len(pp_log) % 2 = 0
              /\ replacement # <<>> =>
                    /\ pp_task.pc = "done"
                    /\ Len(pp_log) = 2 * Len(preprocessor_args)
                    /\ replacement = <<pp_log[Len(pp_log)].doc>>
              /\ pp_task.pc = "done" => replacement # <<>>

\* Three preprocessors, not all the same, have run to the end on a document
\* with a line, and the second one was suspended on its way.
C20_Witness ==
    /\ Len(preprocessor_args) = 3
    /\ preprocessor_args[1] # preprocessor_args[2]
    /\ pp_task.pc = "done"
    /\ pp_input = <<"SRC">>
    /\ Len(pp_log) = 6
    /\ pp_log[4].susp > 0
    /\ replacement = <<pp_input \o preprocessor_args>>

\* The step is the processing of a statement by asm_processor::process.
Dispatched == stmt_count' = stmt_count + 1

\* The handlers that postpone every statement they are given.
AlwaysPostponing ==
    {"CSECT", "DSECT", "RSECT", "COM", "LOCTR", "EXTRN", "WXTRN", "CCW", "CCW0", "CCW1",
     "CNOP", "END", "LTORG", "PUSH", "POP", "TITLE"}

\* The handlers that postpone no statement.
NeverPostponing == {"MNOTE", "AINSERT", "CXD", "USING", "DROP"}

IsChunk(x) == x.fn \in {"register_ordinary_space", "reserve_operands"}

Chunk(x) == [b |-> x.arg[1], e |-> x.arg[2], space |-> x.fn = "register_ordinary_space",
             arg |-> x.arg]

Chunks ==
    LET sel == SelectSeq(effects', IsChunk) IN [k \in DOMAIN sel |-> Chunk(sel[k])]

\* The chunks are not empty and cover the operands once and in order.
ChunksCover(ch, ops) ==
    /\ Len(ops) > 0 => Len(ch) > 0 /\ ch[1].b = 1 /\ ch[Len(ch)].e = Len(ops) + 1
    /\ Len(ops) = 0 => Len(ch) = 0
    /\ \A k \in DOMAIN ch : ch[k].b < ch[k].e
    /\ \A k \in DOMAIN ch : k > 1 => ch[k].b = ch[k - 1].e

\* A chunk with an operand whose length has dependencies is one registered
\* space with one dependency; any other chunk is reserved.
ChunksPostponed(ch, ops) ==
    \A k \in DOMAIN ch :
        LET dep == \E j \in ch[k].b..(ch[k].e - 1) :
                       /\ ops[j].term = "SYM"
                       /\ symbols'[ops[j].name].kind \in {"NONE", "UNDEF"}
        IN /\ ch[k].space = dep
           /\ Cardinality({i \in DOMAIN effects' :
                              /\ effects'[i].fn = "add_dependency_space"
                              /\ effects'[i].arg = ch[k].arg}) = IF dep THEN 1 ELSE 0

\* C22 as the specification states it, for every operand list, a chunk ending
\* where the boundary of the next operand exceeds the boundary the chunk
\* started with.
C22_AsStated ==
    [][stmt'.op \in {"DC", "DS"}
       => LET ops == stmt'.ops
              ch == Chunks
          IN /\ ChunksCover(ch, ops)
             /\ \A k \in DOMAIN ch :
                   /\ \A j \in ch[k].b..(ch[k].e - 1) : ops[j].bnd <= ops[ch[k].b].bnd
                   /\ ch[k].e <= Len(ops) => ops[ch[k].e].bnd > ops[ch[k].b].bnd
             /\ ChunksPostponed(ch, ops)]_vars

\* C22: DC/DS splits an operand list that is not empty and has no empty
\* operand into consecutive non-empty chunks that cover every operand once
\* and in order; a new chunk starts whenever the boundary of the next operand
\* exceeds the boundary of the operand before it; a chunk in which an operand
\* has a length dependency is one registered space with one dependency, any
\* other chunk has its bytes reserved at once.  A statement without operands
\* or with an empty operand is split into no chunks and only postponed.
C22_DataChunks ==
    [][stmt'.op \in {"DC", "DS"}
       => LET ops == stmt'.ops
              ch == Chunks
          IN IF Len(ops) = 0 \/ \E i \in DOMAIN ops : ops[i].type = "EMPTY"
             THEN Len(ch) = 0 /\ postponed' = 1
             ELSE /\ ChunksCover(ch, ops)
                  /\ \A k \in DOMAIN ch :
                        /\ \A j \in (ch[k].b + 1)..(ch[k].e - 1) : ops[j].bnd <= ops[j - 1].bnd
                        /\ ch[k].e <= Len(ops) => ops[ch[k].e].bnd > ops[ch[k].e - 1].bnd
                  /\ ChunksPostponed(ch, ops)]_vars

\* A fullword, a character whose length is not known yet and another
\* fullword were split into two chunks: a space for the first two operands,
\* and the reserved third.
C22_Witness ==
    /\ stmt.op \in {"DC", "DS"}
    /\ Len(stmt.ops) = 3
    /\ stmt.ops[1].bnd = 4 /\ stmt.ops[2].bnd = 1 /\ stmt.ops[3].bnd = 4
    /\ stmt.ops[2].term = "SYM"
    /\ \E i, j \in DOMAIN effects :
          /\ i < j
          /\ effects[i].fn = "register_ordinary_space" /\ effects[i].arg[1] = 1 /\ effects[i].arg[2] = 3
          /\ effects[j].fn = "reserve_operands" /\ effects[j].arg = <<3, 4>>
    /\ \E i \in DOMAIN effects : effects[i].fn = "add_dependency_space"

\* The term names a symbol that is not defined or has no value yet.
PendingIn(sy, t) == t.term = "SYM" /\ sy[t.name].kind \in {"NONE", "UNDEF"}

\* How often the statement posted the dependency of the attribute.
PostedAttr(fn, label, name) ==
    Cardinality({i \in DOMAIN effects' :
                    /\ effects'[i].fn = fn
                    /\ effects'[i].arg[1] = label
                    /\ effects'[i].arg[2] = name})

\* C23: the value of a symbol that a DC/DS created as its label is changed by
\* no later statement.  When a DC/DS creates its label, the symbol has its
\* address as value; the length (scale) attribute it leaves is defined when
\* the length (scale) of the first operand had no dependencies before the
\* label existed, and is set after the creation only when that expression
\* named the label itself and has no dependencies left with the label defined;
\* when dependencies are left, one L (S) dependency is posted for the label;
\* and E033 is added exactly when the tables find a posted one to close a
\* cycle.
C23_DataLabel ==
    [][/\ \A n \in Ids :
             symbols[n].origin = "DAT"
                => symbols'[n].kind = symbols[n].kind /\ symbols'[n].val = symbols[n].val
       /\ (/\ stmt'.op \in {"DC", "DS"}
           /\ stmt'.label.type = "ORD"
           /\ symbols[stmt'.label.name] = NoSymbol
           /\ symbols'[stmt'.label.name] # NoSymbol)
          => LET label == stmt'.label.name
                 op == stmt'.ops[1]
                 l_before == PendingIn(symbols, op)
                 l_after == PendingIn(symbols', op)
                 s_before == PendingIn(symbols, op.scale)
                 s_after == PendingIn(symbols', op.scale)
             IN /\ symbols'[label].kind = "RELOC"
                /\ symbols'[label].origin = "DAT"
                /\ (symbols'[label].length # undef_length)
                      <=> (~l_before \/ (op.name = label /\ ~l_after))
                /\ (symbols'[label].scale # undef_scale)
                      <=> \/ op.scale.term # "NONE" /\ ~s_before
                          \/ s_before /\ op.scale.name = label /\ ~s_after
                /\ PostedAttr("add_dependency_L", label, op.name) = IF l_after THEN 1 ELSE 0
                /\ PostedAttr("add_dependency_S", label, op.scale.name) = IF s_after THEN 1 ELSE 0
                /\ HasDiag(diags', "E033")
                      <=> \E i \in DOMAIN effects' :
                             /\ effects'[i].fn \in {"add_dependency_L", "add_dependency_S"}
                             /\ ~effects'[i].arg[3]]_vars

\* A DC created its label: the length modifier named the label itself and
\* the length was set after the creation; the scale modifier named a symbol
\* without a value, so the scale was left undefined, its dependency was
\* posted, closed a cycle and gave E033.
C23_Witness ==
    /\ stmt.op = "DC"
    /\ stmt.label.type = "ORD"
    /\ stmt.ops[1].name = stmt.label.name
    /\ stmt.ops[1].scale.term = "SYM"
    /\ stmt.ops[1].scale.name # stmt.label.name
    /\ symbols[stmt.label.name].origin = "DAT"
    /\ symbols[stmt.label.name].length # undef_length
    /\ symbols[stmt.label.name].scale = undef_scale
    /\ ~HasDiag(diags, "E031")
    /\ HasDiag(diags, "E033")
    /\ \E i \in DOMAIN effects : effects[i].fn = "add_dependency_S" /\ ~effects[i].arg[3]

\* The status for which fill_cache is to leave the parser alone.
OperandsNotParsed(status) ==
    status.occurrence = "ABSENT" \/ status.form \in {"UNKNOWN", "IGNORED"}

\* How often the operand field of the statement was parsed under the key.
ParseCount(log, i, key) ==
    Len(SelectSeq(log, LAMBDA e : e.base = i /\ processing_status_cache_key(e.status) = key))

\* C24: for one deferred statement the operand field is parsed at most once
\* per key of the cache and never under a status that says the operands are
\* absent or the form unknown or ignored; a retrieval that finds nothing
\* under its key fills the cache under that key only, with an empty operand
\* list when the parser is left alone; a retrieval that finds the key leaves
\* cache and parser alone; and either way the statement it gets is the one
\* cached under the key, and what a processor other than lookahead is
\* reported are the diagnostics cached under the key.
C24_ParsedOncePerKey ==
    [][/\ \A i \in DOMAIN MemberStatements, key \in CacheKeys :
             /\ ParseCount(parse_log', i, key) <= 1
             /\ \A e \in {parse_log'[n] : n \in DOMAIN parse_log'} : ~OperandsNotParsed(e.status)
       /\ ~retrieval'.reparsed => stmt_cache' = stmt_cache /\ parse_log' = parse_log
       /\ retrieval'.reparsed
          => LET i == retrieval'.base
                 status == retrieval'.status
                 key == processing_status_cache_key(status)
                 before == cache_get(stmt_cache, i, key)
                 after == cache_get(stmt_cache', i, key)
             IN /\ after # NoItem
                /\ \A j \in DOMAIN MemberStatements, k \in CacheKeys :
                      <<j, k>> # <<i, key>> => cache_get(stmt_cache', j, k) = cache_get(stmt_cache, j, k)
                /\ before # NoItem => after = before /\ parse_log' = parse_log
                /\ before = NoItem /\ OperandsNotParsed(status)
                      => parse_log' = parse_log /\ after.stmt.ops = <<>>
                /\ before = NoItem /\ ~OperandsNotParsed(status)
                      => /\ Len(parse_log') = Len(parse_log) + 1
                         /\ ParseCount(parse_log', i, key) = 1
                         /\ after.stmt.ops = parse_operand_field(MemberStatements[i].field, status).ops
                /\ retrieval'.stmt = resolved_statement_impl(after.stmt, status)
                /\ retrieval'.kind # "LOOKAHEAD" => retrieval'.reported = after.diags]_vars

\* The deferred statement was parsed once, for a macro processor, and is
\* cached under one key; the ordinary processor, asking with the same status
\* afterwards, was returned the statement with the parsed operands.
C24_Witness ==
    /\ retrievals = 3
    /\ retrieval.reparsed
    /\ retrieval.kind = "ORDINARY"
    /\ retrieval.returned # NullStmt
    /\ retrieval.returned.ops # <<>>
    /\ Len(parse_log) = 1
    /\ parse_log[1].kind = "MACRO"
    /\ parse_log[1].base = retrieval.base
    /\ parse_log[1].status = retrieval.status
    /\ Cardinality({k \in CacheKeys : cache_get(stmt_cache, retrieval.base, k) # NoItem}) = 1

\* What reparsing the statement under the status gives as diagnostics.
ReparseDiagnostics(i, status) ==
    filter_cached_diagnostics(MemberStatements[i].diags)
       \o (IF OperandsNotParsed(status) THEN <<>>
           ELSE parse_operand_field(MemberStatements[i].field, status).diags)

\* C25: a retrieval by a lookahead processor reports no diagnostic; the cache
\* holds under the key of every reparse all diagnostics of that reparse,
\* whichever processor asked for it; and every retrieval with a status by a
\* processor other than lookahead reports all of them.
C25_LookaheadDiagnostics ==
    [][/\ retrieval'.kind = "LOOKAHEAD" => retrieval'.reported = <<>>
       /\ \A i \in DOMAIN MemberStatements, status \in ProcessingStatus :
             cache_get(stmt_cache', i, processing_status_cache_key(status)) # NoItem
                => cache_get(stmt_cache', i, processing_status_cache_key(status)).diags
                      = ReparseDiagnostics(i, status)
       /\ retrieval'.reparsed /\ retrieval'.kind # "LOOKAHEAD"
             => retrieval'.reported = ReparseDiagnostics(retrieval'.base, retrieval'.status)]_vars

\* The operand field was parsed for a lookahead processor, with a diagnostic
\* of the parser; the ordinary processor, given the statement under the same
\* status afterwards, was reported the diagnostic.
C25_Witness ==
    /\ Len(parse_log) = 1
    /\ parse_log[1].kind = "LOOKAHEAD"
    /\ parse_log[1].base = retrieval.base
    /\ parse_log[1].status = retrieval.status
    /\ retrieval.kind = "ORDINARY"
    /\ retrieval.returned # NullStmt
    /\ \E n \in DOMAIN retrieval.reported : retrieval.reported[n].code = "S0002"

\* The calls of the last statement that set the location counter.
CounterSet(es) ==
    SelectSeq(es, LAMBDA e : e.fn \in {"set_available_location_counter_value",
                                        "set_location_counter_value",
                                        "set_location_counter_value_postponed"})

\* The calls that can move the location counter at all: the ones that set it,
\* an alignment to more than a byte, a reservation.
CounterMoved(es) ==
    \E i \in DOMAIN es :
       \/ es[i].fn \in {"set_available_location_counter_value", "set_location_counter_value",
                        "set_location_counter_value_postponed", "reserve_storage_area"}
       \/ es[i].fn = "align" /\ es[i].arg[2] > 1

OrgOperandAbsent(ops) ==
    Len(ops) = 0 \/ (Len(ops) = 2 /\ ops[1].type = "EMPTY" /\ ops[2].type = "EMPTY")

\* The loop over the operands ends at an assembler operand behind the first
\* that is no expression, with A115 and without a return.
OrgLoopBroken(ops) ==
    \E i \in 2..Len(ops) :
       /\ ops[i].type = "ASM"
       /\ ops[i].kind # "EXPR"
       /\ \A j \in 1..(i - 1) : ops[j].type = "ASM" => ops[j].kind = "EXPR"

\* C26 as stated: an ORG that emits A115, A116, A245 or E068 does not move
\* the location counter, and one that emits none of them sets it once, to the
\* maximum reached when the operand is absent and to the target otherwise.
C26_AsStated ==
    [][stmt'.op = "ORG"
          => IF \E code \in {"A115", "A116", "A245", "E068"} : HasDiag(diags', code)
             THEN ~CounterMoved(effects')
             ELSE /\ Len(CounterSet(effects')) = 1
                  /\ (CounterSet(effects')[1].fn = "set_available_location_counter_value")
                        <=> OrgOperandAbsent(stmt'.ops)]_vars

\* C26: an ORG that emits A116, A245 or E068 does not move the location
\* counter, and neither does one that emits A115 for its offset or for an
\* invalid address.  An ORG whose A115 comes from an operand behind the first
\* that is no expression goes on with the operands before it: like an ORG
\* without any of the four diagnostics it sets the counter once, to the
\* maximum reached when the operand is absent and to the value of the first
\* operand otherwise, unless one of the other diagnostics follows.
C26_Org ==
    [][stmt'.op = "ORG"
          => LET ops == stmt'.ops
                 returned == \/ \E code \in {"A116", "A245", "E068"} : HasDiag(diags', code)
                             \/ HasDiag(diags', "A115") /\ ~OrgLoopBroken(ops)
                             \/ CountDiag(diags', "A115") > 1
                 set == CounterSet(effects')
             IN IF returned THEN ~CounterMoved(effects')
                ELSE /\ Len(set) = 1
                     /\ IF OrgOperandAbsent(ops)
                        THEN set[1].fn = "set_available_location_counter_value"
                        ELSE /\ set[1].fn \in {"set_location_counter_value",
                                               "set_location_counter_value_postponed"}
                             /\ set[1].arg[1].expr = ops[1]
                             /\ ops[1].type = "ASM" /\ ops[1].kind = "EXPR"]_vars

\* An ORG with a symbol as target and a second operand that is no expression
\* emitted A115 and set the location counter to the symbol's address.
C26_Witness ==
    /\ stmt.op = "ORG"
    /\ HasDiag(diags, "A115")
    /\ Len(stmt.ops) = 2
    /\ stmt.ops[1].term = "SYM"
    /\ \E i \in DOMAIN effects :
          /\ effects[i].fn = "set_location_counter_value"
          /\ effects[i].arg[1].from = "expression"
          /\ effects[i].arg[1].expr = stmt.ops[1]

UsingRejected(ds) == \E code \in {"E031", "A012", "A104", "A164"} : HasDiag(ds, code)

UsingAdded(es) == \E i \in DOMAIN es : es[i].fn = "using_add"

\* C27 as stated: a USING that is rejected with E031, A012, A104 or A164 adds
\* no mapping and registers no label.
C27_AsStated ==
    [][stmt'.op = "USING" /\ UsingRejected(diags')
          => /\ active_usings' = active_usings
             /\ ~UsingAdded(effects')
             /\ using_labels' = using_labels]_vars

\* C27: a USING that is rejected with E031, A012, A104 or A164 adds no
\* mapping; rejected with E031 it registers no label either.  Rejected with
\* one of the others it has registered its label before, when it has one that
\* is not defined as a symbol.  A USING without any of them adds its mapping.
C27_UsingRejected ==
    [][stmt'.op = "USING"
          => LET label == find_using_label(stmt') IN
             /\ UsingRejected(diags') <=> ~UsingAdded(effects')
             /\ UsingRejected(diags') => active_usings' = active_usings
             /\ using_labels' =
                   IF label # EmptyId /\ symbols[label] = NoSymbol
                   THEN using_labels \cup {label}
                   ELSE using_labels
             /\ HasDiag(diags', "E031")
                   <=> label # EmptyId /\ symbols[label] # NoSymbol /\ label \notin using_labels
             /\ symbols' = symbols]_vars

\* A USING with one operand only was rejected with A012; its label, which
\* is no symbol, is registered as a USING label, and there is no mapping.
C27_Witness ==
    /\ stmt.op = "USING"
    /\ HasDiag(diags, "A012")
    /\ stmt.label.type = "ORD"
    /\ symbols[stmt.label.name] = NoSymbol
    /\ using_labels = {stmt.label.name}
    /\ active_usings = {}
    /\ ~UsingAdded(effects)

\* The operands of DROP that are expressions: what goes into bases.
RECURSIVE DropBases(_)
DropBases(ops) ==
    IF ops = <<>> THEN <<>>
    ELSE (IF Head(ops).type = "ASM" /\ Head(ops).kind = "EXPR" THEN <<Head(ops).v>> ELSE <<>>)
            \o DropBases(Tail(ops))

\* The one call of using_remove of the statement hands over the bases.
UsingRemoveCalled(es, bases) ==
    /\ Len(SelectSeq(es, LAMBDA e : e.fn = "using_remove")) = 1
    /\ \E i \in DOMAIN es : es[i].fn = "using_remove" /\ es[i].arg = bases

\* C28 as stated: a DROP hands an empty list of bases to using_remove only
\* when it has no operands or exactly two empty ones, and a DROP every operand
\* of which is rejected with A141 removes no mapping.
C28_AsStated ==
    [][stmt'.op = "DROP"
          => /\ UsingRemoveCalled(effects', <<>>) => OrgOperandAbsent(stmt'.ops)
             /\ (~OrgOperandAbsent(stmt'.ops) /\ CountDiag(diags', "A141") = Len(stmt'.ops))
                   => active_usings' = active_usings]_vars

\* C28: every DROP calls using_remove once, with the operands that are
\* expressions and A141 for each of the others.  The list is empty, and all
\* mappings are removed, when the statement has no operands, exactly two
\* empty ones, or only operands that are rejected with A141.
C28_Drop ==
    [][stmt'.op = "DROP"
          => LET ops == stmt'.ops
                 bases == IF OrgOperandAbsent(ops) THEN <<>> ELSE DropBases(ops)
             IN /\ UsingRemoveCalled(effects', bases)
                /\ CountDiag(diags', "A141")
                      = IF OrgOperandAbsent(ops) THEN 0 ELSE Len(ops) - Len(bases)
                /\ active_usings' = IF bases = <<>> THEN {}
                                    ELSE active_usings \ {bases[i] : i \in DOMAIN bases}]_vars

\* A DROP whose only operand is no expression was given A141 and handed an
\* empty list to using_remove: no mapping is left.
C28_Witness ==
    /\ stmt.op = "DROP"
    /\ Len(stmt.ops) = 1
    /\ CountDiag(diags, "A141") = 1
    /\ UsingRemoveCalled(effects, <<>>)
    /\ active_usings = {}

\* C29: for an operand list that is not empty and has no empty operand the
\* loop over the chunks of DC/DS ends behind the last operand; every chunk
\* holds at least one operand, every chunk starts behind the start of the one
\* before it, and there are at most as many chunks as operands.
C29_ChunkLoopTerminates ==
    [][(/\ stmt'.op \in {"DC", "DS"}
        /\ Len(stmt'.ops) > 0
        /\ \A i \in DOMAIN stmt'.ops : stmt'.ops[i].type # "EMPTY")
       => LET ch == Chunks IN
          /\ Len(ch) >= 1
          /\ Len(ch) <= Len(stmt'.ops)
          /\ ch[Len(ch)].e = Len(stmt'.ops) + 1
          /\ \A k \in DOMAIN ch : ch[k].e - ch[k].b >= 1
          /\ \A k \in DOMAIN ch : k > 1 => ch[k].b > ch[k - 1].b]_vars

\* Three operands, the boundary rising behind the first: the loop ran twice,
\* over the first operand and then over the two others.
C29_Witness ==
    /\ stmt.op \in {"DC", "DS"}
    /\ Len(stmt.ops) = 3
    /\ stmt.ops[1].bnd < stmt.ops[2].bnd
    /\ Len(SelectSeq(effects, IsChunk)) = 2
    /\ SelectSeq(effects, IsChunk)[1].arg[2] = 2
    /\ SelectSeq(effects, IsChunk)[2].arg[1] = 2
    /\ SelectSeq(effects, IsChunk)[2].arg[2] = 4

\* The START processed last was accepted with an absolute operand: it
\* reserved its offset in the new section.
StartReserved(es) == \E i \in DOMAIN es : es[i].fn = "section_reserve_storage_area"

\* The offset the START reserved, as a uint32_t.
StartReservation(es) ==
    LET i == CHOOSE i \in DOMAIN es : es[i].fn = "section_reserve_storage_area"
    IN U32(es[i].arg[1], es[i].arg[2])

\* y - x for two uint32_t that lie less than 2^15 * 2^16 apart.
U32Distance(x, y) == (y.hi - x.hi) * Half + (y.lo - x.lo)

\* offset is the least multiple of the section alignment that is not below v.
LeastMultipleAbove(v, offset) ==
    /\ offset.lo % SectionAlignment = 0
    /\ IF v >= 0
       THEN U32Distance(to_uint32(v), offset) \in 0..(SectionAlignment - 1)
       ELSE v > -SectionAlignment /\ offset = U32(0, 0)

\* C30 as stated: the offset of an accepted START is the least multiple of
\* the section alignment that is not below the value v of the operand, and
\* neither taking v as a uint32_t nor rounding it wraps around.
C30_AsStated ==
    [][stmt'.op = "START" /\ StartReserved(effects')
          => /\ LeastMultipleAbove(stmt'.ops[1].v, StartReservation(effects'))
             /\ stmt'.ops[1].v >= 0]_vars

\* C30: for an operand value v that is not negative the offset of an accepted
\* START is the least multiple of the section alignment that is not below v,
\* computed without wrap-around up to the greatest int32_t.  A negative v is
\* taken modulo 2^32: the offset is v + 2^32 rounded up to the alignment,
\* modulo 2^32 again, which is 0 for the values above the negated alignment.
C30_StartOffset ==
    [][stmt'.op = "START" /\ StartReserved(effects')
          => LET v == stmt'.ops[1].v
                 offset == StartReservation(effects')
             IN /\ Len(SelectSeq(effects', LAMBDA e : e.fn = "section_reserve_storage_area")) = 1
                /\ offset.lo % SectionAlignment = 0
                /\ offset.hi \in 0..(Half - 1) /\ offset.lo \in 0..(Half - 1)
                /\ v >= 0 => /\ LeastMultipleAbove(v, offset)
                             /\ offset.hi <= Half \div 2
                /\ v < 0 /\ v > -SectionAlignment => offset = U32(0, 0)
                /\ v <= -SectionAlignment
                      => /\ offset.hi >= Half \div 2
                         /\ U32Distance(to_uint32(v), offset) \in 0..(SectionAlignment - 1)]_vars

\* START -8 was accepted and reserved 4294967288 bytes.
C30_Witness ==
    /\ stmt.op = "START"
    /\ Len(stmt.ops) = 1
    /\ stmt.ops[1].v = -8
    /\ diags = <<>>
    /\ StartReserved(effects)
    /\ StartReservation(effects) = U32(65535, 65528)

====
